---- MODULE Spec2Model ----
(***************************************************************************)
(* FolioMind backend: the document classification engine, the field       *)
(* extraction service and the API endpoints that call them.                *)
(*                                                                         *)
(* A document is a recognised text plus optional pre-extracted fields.     *)
(* ClassificationService.classify lower-cases the input into a haystack,   *)
(* runs six detectors over it and resolves one document type and a         *)
(* confidence by a fixed priority order.  ExtractionService.extract_fields *)
(* extracts fields by pattern, refines them by document type and adds the  *)
(* type-specific fields.  Texts are TLA+ strings; the detectors and the    *)
(* extractors are translated keyword list by keyword list and regular      *)
(* expression by regular expression from app/core/detectors and            *)
(* app/services/extraction_service.py.                                     *)
(*                                                                         *)
(* A classification's confidence is in hundredths (0.95 is 95), a field's  *)
(* confidence in thousandths (0.85 is 850).                                *)
(*                                                                         *)
(* Spec is POST /classify alone over generated and sample documents;       *)
(* ServiceSpec is /classify, /extract and /analyze served for concurrent   *)
(* callers around the provider cached by LLMProviderFactory.               *)
(*                                                                         *)
(* LuhnSpec applies luhn_check to card numbers, LlmSpec applies            *)
(* _extract_with_llm to the outcomes of the provider, StagesSpec runs      *)
(* extract_fields stage by stage for every document type, UploadSpec runs  *)
(* the two upload endpoints step by step, and FactorySpec runs             *)
(* LLMProviderFactory under any order of get_provider, reset_provider and  *)
(* ExtractionService().  Each keeps the variables of the others idle.      *)
(***************************************************************************)
EXTENDS Integers, Sequences, FiniteSets, TLC

VARIABLES
    pc, request, response,      \* POST /classify: handler position, request, response
    settings,                   \* app.core.config.settings
    _instance,                  \* LLMProviderFactory._instance
    calls,                      \* the requests in flight of the concurrent callers
    luhn_input, luhn_result,    \* luhn_check: its argument, its result once called
    llm_outcome, llm_result,    \* _extract_with_llm: what extract_json does, its result
    extraction,                 \* extract_fields: the call under way, stage by stage
    upload,                     \* an upload request: its file, its steps, its outcome
    factory                     \* LLMProviderFactory: its cache and its calls since a reset

vars == <<pc, request, response, settings, _instance, calls,
          luhn_input, luhn_result, llm_outcome, llm_result,
          extraction, upload, factory>>

\* the variables of each part
luhnVars == <<luhn_input, luhn_result>>
llmVars == <<llm_outcome, llm_result>>
extractVars == <<extraction>>
uploadVars == <<upload>>
factoryVars == <<factory>>

(***************************************************************************)
(* String primitives (Python str operations used by the detectors).        *)
(***************************************************************************)

\* Python:  s[i:i+1]  (one character, empty outside the string)
CharAt(s, i) == IF i >= 1 /\ i <= Len(s) THEN SubSeq(s, i, i) ELSE ""

\* Python:  needle in text
Contains(text, needle) ==
    \E i \in 1..(Len(text) - Len(needle) + 1) :
        SubSeq(text, i, i + Len(needle) - 1) = needle

\* Python:  any(k in text for k in keywords)
AnyIn(keywords, text) ==
    \E k \in 1..Len(keywords) : Contains(text, keywords[k])

UpperLetters == "ABCDEFGHIJKLMNOPQRSTUVWXYZ"
LowerLetters == "abcdefghijklmnopqrstuvwxyz"
DigitChars == "0123456789"

IndexIn(alphabet, c) ==
    IF \E i \in 1..Len(alphabet) : CharAt(alphabet, i) = c
    THEN CHOOSE i \in 1..Len(alphabet) : CharAt(alphabet, i) = c
    ELSE 0

\* the lower-case letter of each upper-case letter
LowerMap ==
    [c \in {CharAt(UpperLetters, i) : i \in 1..26} |->
        CharAt(LowerLetters, IndexIn(UpperLetters, c))]

LowerChar(c) == IF c \in DOMAIN LowerMap THEN LowerMap[c] ELSE c

RECURSIVE Lower(_)
\* Python:  s.lower()  (character by character, by halves)
Lower(s) ==
    IF Len(s) = 0 THEN ""
    ELSE IF Len(s) = 1 THEN LowerChar(s)
    ELSE LET half == Len(s) \div 2
         IN  Lower(SubSeq(s, 1, half)) \o Lower(SubSeq(s, half + 1, Len(s)))

RECURSIVE JoinFrom(_, _, _)
JoinFrom(sep, parts, i) ==
    IF i > Len(parts) THEN ""
    ELSE IF i = Len(parts) THEN parts[i]
    ELSE parts[i] \o sep \o JoinFrom(sep, parts, i + 1)

\* Python:  sep.join(parts)
Join(sep, parts) == JoinFrom(sep, parts, 1)

\* Python:  d.get(key, default)
Get(d, key, default) == IF key \in DOMAIN d THEN d[key] ELSE default

\* Python:  sum([b1, b2, ...]) over booleans
CountTrue(flags) == Cardinality({k \in 1..Len(flags) : flags[k]})

\* regular-expression character classes  \d  \s  \w
IsDigit(c) == c \in {"0", "1", "2", "3", "4", "5", "6", "7", "8", "9"}
IsSpace(c) == c \in {" ", "\n", "\t", "\r"}
WordChars ==
    {CharAt(LowerLetters, i) : i \in 1..26} \cup {CharAt(UpperLetters, i) : i \in 1..26}
        \cup {CharAt(DigitChars, i) : i \in 1..10} \cup {"_"}
IsWordChar(c) == c \in WordChars

DigitValue(c) == IndexIn(DigitChars, c) - 1

\* \b between a digit at position i and its left neighbour
BoundaryBefore(text, i) == i = 1 \/ ~IsWordChar(CharAt(text, i - 1))
\* \b between a digit at position i - 1 and position i
BoundaryAfter(text, i) == i > Len(text) \/ ~IsWordChar(CharAt(text, i))

\* \d{n} at position i
DigitsAt(text, i, n) ==
    /\ i + n - 1 <= Len(text)
    /\ \A j \in i..(i + n - 1) : IsDigit(CharAt(text, j))

RECURSIVE DigitRun(_, _)
\* length of the maximal run of digits starting at position i
DigitRun(text, i) ==
    IF i <= Len(text) /\ IsDigit(CharAt(text, i))
    THEN 1 + DigitRun(text, i + 1)
    ELSE 0

(***************************************************************************)
(* Promotional detector.                                                   *)
(***************************************************************************)
incentive_verbs == <<"get $", "earn", "save $", "receive", "win", "claim", "redeem">>

conditionals ==
    <<"when you", "if you", "after you", "you'll", "we'll", "you will", "you can">>

promo_terms ==
    <<"promo code", "promotional code", "offer code", "offer", "promotion",
      "deal", "bonus", "reward", "free", "gift">>

urgency ==
    <<"limited time", "expires", "ends", "by ", "hurry", "act now",
      "don't miss", "last chance">>

ctas ==
    <<"sign up", "enroll", "apply now", "join now", "visit", "call now",
      "click here", "register">>

\* mutant: a single promotional category is enough
is_promotional_on_one_category(text) ==
    LET signal_count == CountTrue(<<AnyIn(incentive_verbs, text),
                                    AnyIn(conditionals, text),
                                    AnyIn(promo_terms, text),
                                    AnyIn(urgency, text),
                                    AnyIn(ctas, text)>>)
    IN  [hit |-> signal_count >= 1,
         details |-> [signal_count |-> signal_count]]

is_promotional(text) ==
    LET has_incentive_verb == AnyIn(incentive_verbs, text)
        has_conditional == AnyIn(conditionals, text)
        has_promo_term == AnyIn(promo_terms, text)
        has_urgency == AnyIn(urgency, text)
        has_cta == AnyIn(ctas, text)
        signal_count == CountTrue(<<has_incentive_verb, has_conditional,
                                    has_promo_term, has_urgency, has_cta>>)
    IN  [hit |-> signal_count >= 2,
         details |-> [signal_count |-> signal_count,
                      has_incentive_verb |-> has_incentive_verb,
                      has_conditional |-> has_conditional,
                      has_promo_term |-> has_promo_term,
                      has_urgency |-> has_urgency,
                      has_cta |-> has_cta]]

(***************************************************************************)
(* Insurance card detector.                                                *)
(***************************************************************************)
\* mutant: the anti-pattern list without "eob"
anti_patterns_without_eob ==
    <<"this is not an insurance card", "summary of benefits",
      "explanation of benefits", "claim statement", "billing statement">>

anti_patterns ==
    <<"this is not an insurance card", "summary of benefits",
      "explanation of benefits", "eob", "claim statement", "billing statement">>

card_indicators == <<"member id", "subscriber id", "policy number", "certificate number">>

insurance_terms == <<"copay", "rx bin", "rx grp", "deductible", "payer id">>

network_terms == <<"ppo", "hmo", "epo", "pos">>

known_insurers ==
    <<"blue cross", "blue shield", "premera", "regence", "aetna", "cigna",
      "kaiser", "vsp", "delta dental">>

\* mutant: the detector without the RX BIN instant match
is_insurance_card_without_rx_bin_match(text, field_keys) ==
    IF AnyIn(anti_patterns, text)
    THEN [hit |-> FALSE, details |-> [rejected_reason |-> "anti_pattern"]]
    ELSE
    LET has_card_indicator == AnyIn(card_indicators, text)
        has_insurance_term == AnyIn(insurance_terms, text)
        has_network_term == AnyIn(network_terms, text)
        has_known_insurer == AnyIn(known_insurers, text)
        signal_count == CountTrue(<<has_card_indicator, has_insurance_term,
                                    has_network_term, has_known_insurer>>)
        has_rx_bin == Contains(text, "rx bin") \/ Contains(text, "rxbin")
    IN  [hit |-> signal_count >= 2,
         details |-> [signal_count |-> signal_count,
                      has_card_indicator |-> has_card_indicator,
                      has_insurance_term |-> has_insurance_term,
                      has_network_term |-> has_network_term,
                      has_known_insurer |-> has_known_insurer,
                      has_rx_bin |-> has_rx_bin]]

is_insurance_card(text, field_keys) ==
    IF AnyIn(anti_patterns, text)
    THEN [hit |-> FALSE, details |-> [rejected_reason |-> "anti_pattern"]]
    ELSE
    LET has_card_indicator == AnyIn(card_indicators, text)
        has_insurance_term == AnyIn(insurance_terms, text)
        has_network_term == AnyIn(network_terms, text)
        has_known_insurer == AnyIn(known_insurers, text)
        signal_count == CountTrue(<<has_card_indicator, has_insurance_term,
                                    has_network_term, has_known_insurer>>)
        has_rx_bin == Contains(text, "rx bin") \/ Contains(text, "rxbin")
    IN  [hit |-> signal_count >= 2 \/ has_rx_bin,
         details |-> [signal_count |-> signal_count,
                      has_card_indicator |-> has_card_indicator,
                      has_insurance_term |-> has_insurance_term,
                      has_network_term |-> has_network_term,
                      has_known_insurer |-> has_known_insurer,
                      has_rx_bin |-> has_rx_bin]]

(***************************************************************************)
(* Credit card detector.                                                   *)
(***************************************************************************)
RECURSIVE StripNonDigitsFrom(_, _)
StripNonDigitsFrom(s, i) ==
    IF i > Len(s) THEN ""
    ELSE (IF IsDigit(CharAt(s, i)) THEN CharAt(s, i) ELSE "")
             \o StripNonDigitsFrom(s, i + 1)

\* Python:  re.sub(r"\D", "", s)
StripNonDigits(s) == StripNonDigitsFrom(s, 1)

RECURSIVE LuhnTotal(_, _)
\* the loop of luhn_check over reverse_digits[i..], i counted from 0
LuhnTotal(digits, i) ==
    IF i >= Len(digits) THEN 0
    ELSE LET n == DigitValue(CharAt(digits, Len(digits) - i))
             doubled == IF 2 * n > 9 THEN 2 * n - 9 ELSE 2 * n
         IN  (IF i % 2 = 1 THEN doubled ELSE n) + LuhnTotal(digits, i + 1)

\* mutant: the length test without the checksum
luhn_check_length_only(card_number) ==
    LET digits == StripNonDigits(card_number)
    IN  ~(Len(digits) = 0 \/ Len(digits) < 13 \/ Len(digits) > 19)

\* mutant: the check without the upper length limit
luhn_check_without_upper_limit(card_number) ==
    LET digits == StripNonDigits(card_number)
    IN  IF Len(digits) = 0 \/ Len(digits) < 13
        THEN FALSE
        ELSE LuhnTotal(digits, 0) % 10 = 0

luhn_check(card_number) ==
    LET digits == StripNonDigits(card_number)
    IN  IF Len(digits) = 0 \/ Len(digits) < 13 \/ Len(digits) > 19
        THEN FALSE
        ELSE LuhnTotal(digits, 0) % 10 = 0

\* length of an optional  [\s\-]?  at position i
OptionalSeparator(text, i) ==
    IF i <= Len(text) /\ (IsSpace(CharAt(text, i)) \/ CharAt(text, i) = "-")
    THEN 1 ELSE 0

\* \b\d{4}[\s\-]?\d{4}[\s\-]?\d{4}[\s\-]?\d{3,7}\b  tried at position i:
\* the position after the match, 0 when there is none
GroupedNumberEnd(text, i) ==
    LET g2 == i + 4 + OptionalSeparator(text, i + 4)
        g3 == g2 + 4 + OptionalSeparator(text, g2 + 4)
        g4 == g3 + 4 + OptionalSeparator(text, g3 + 4)
        last == DigitRun(text, g4)
    IN  IF /\ BoundaryBefore(text, i)
           /\ DigitsAt(text, i, 4)
           /\ DigitsAt(text, g2, 4)
           /\ DigitsAt(text, g3, 4)
           /\ last >= 3 /\ last <= 7
           /\ BoundaryAfter(text, g4 + last)
        THEN g4 + last
        ELSE 0

\* \b\d{13,19}\b  tried at position i
ContinuousNumberEnd(text, i) ==
    LET run == DigitRun(text, i)
    IN  IF /\ BoundaryBefore(text, i)
           /\ run >= 13 /\ run <= 19
           /\ BoundaryAfter(text, i + run)
        THEN i + run
        ELSE 0

\* the leftmost of the positions at which a match starts, 0 when there is none
FirstMatchFrom(starts) ==
    IF starts = {} THEN 0
    ELSE CHOOSE j \in starts : \A k \in starts : j <= k

RECURSIVE FindAllGrouped(_, _)
\* re.findall: the leftmost match, then on from the end of that match
FindAllGrouped(text, i) ==
    LET start == FirstMatchFrom({j \in i..Len(text) : GroupedNumberEnd(text, j) > 0})
        end == GroupedNumberEnd(text, start)
    IN  IF start = 0 THEN <<>>
        ELSE <<SubSeq(text, start, end - 1)>> \o FindAllGrouped(text, end)

RECURSIVE FindAllContinuous(_, _)
FindAllContinuous(text, i) ==
    LET start == FirstMatchFrom({j \in i..Len(text) : ContinuousNumberEnd(text, j) > 0})
        end == ContinuousNumberEnd(text, start)
    IN  IF start = 0 THEN <<>>
        ELSE <<SubSeq(text, start, end - 1)>> \o FindAllContinuous(text, end)

extract_card_numbers(text) ==
    FindAllGrouped(text, 1) \o FindAllContinuous(text, 1)

\* mutant: the exclusion list without its first term
non_payment_card_terms_without_gift_card ==
    <<"member card", "membership card", "loyalty card">>

non_payment_card_terms == <<"gift card", "member card", "membership card", "loyalty card">>

issuer_names ==
    <<"visa", "mastercard", "amex", "american express", "discover", "maestro", "jcb">>

card_type_keywords == <<"credit card", "debit card", "valid thru", "expires">>

\* re.search(r"\b(0[1-9]|1[0-2])/(\d{2}|\d{4})\b", text)
HasExpiryPattern(text) ==
    \E i \in 1..Len(text) :
        /\ BoundaryBefore(text, i)
        /\ \/ CharAt(text, i) = "0"
              /\ IsDigit(CharAt(text, i + 1)) /\ CharAt(text, i + 1) # "0"
           \/ CharAt(text, i) = "1"
              /\ CharAt(text, i + 1) \in {"0", "1", "2"}
        /\ CharAt(text, i + 2) = "/"
        /\ \/ DigitsAt(text, i + 3, 2) /\ BoundaryAfter(text, i + 5)
           \/ DigitsAt(text, i + 3, 4) /\ BoundaryAfter(text, i + 7)

is_credit_card(text, field_values, field_keys) ==
    LET is_non_payment_card == AnyIn(non_payment_card_terms, text)
        has_issuer_name == AnyIn(issuer_names, text)
        card_numbers == extract_card_numbers(text)
        has_valid_pan == \E k \in 1..Len(card_numbers) : luhn_check(card_numbers[k])
        has_expiry == HasExpiryPattern(text)
        has_card_field ==
            \E k \in 1..Len(field_keys) :
                \/ /\ Contains(field_keys[k], "card")
                   /\ \/ Contains(field_keys[k], "number")
                      \/ Contains(field_keys[k], "pan")
                \/ Contains(field_keys[k], "credit")
                \/ Contains(field_keys[k], "debit")
        has_card_keyword == AnyIn(card_type_keywords, text)
        has_strong_context ==
            has_issuer_name \/ has_expiry \/ has_card_field \/ has_card_keyword
    IN  IF is_non_payment_card /\ ~has_issuer_name
        THEN [hit |-> FALSE, details |-> [rejected_reason |-> "non_payment_card"]]
        ELSE [hit |-> has_valid_pan /\ has_strong_context,
              details |-> [has_valid_pan |-> has_valid_pan,
                           has_issuer_name |-> has_issuer_name,
                           has_expiry |-> has_expiry,
                           has_card_field |-> has_card_field,
                           has_card_keyword |-> has_card_keyword,
                           is_non_payment_card |-> is_non_payment_card]]

(***************************************************************************)
(* Receipt detector.                                                       *)
(***************************************************************************)
RECURSIVE SkipSpaces(_, _)
\* position after  \s*  started at position i
SkipSpaces(text, i) ==
    IF i <= Len(text) /\ IsSpace(CharAt(text, i))
    THEN SkipSpaces(text, i + 1)
    ELSE i

\* \$\s*\d+(?:\.\d{2})?  matches starting at position i
AmountAt(text, i) ==
    /\ CharAt(text, i) = "$"
    /\ DigitRun(text, SkipSpaces(text, i + 1)) >= 1

\* len(re.findall(pattern, text)): a match holds no second "$", so the
\* matches are exactly the "$" positions at which the pattern matches
count_amounts(text) == Cardinality({i \in 1..Len(text) : AmountAt(text, i)})

\* mutant: the transaction identifiers without "order #"
transaction_patterns_without_order ==
    <<"receipt #", "receipt number", "transaction #", "order number", "confirmation #">>

transaction_patterns ==
    <<"receipt #", "receipt number", "transaction #", "order #", "order number",
      "confirmation #">>

card_types == <<"visa", "mastercard", "amex", "discover">>

payment_indicators == <<"auth code", "approval", "paid with">>

cash_indicators == <<"cash", "change:", "tendered", "amount paid">>

merchant_indicators == <<"store #", "cashier", "terminal", "server:", "table:">>

receipt_keywords == <<"receipt", "thank you for shopping">>

payment_complete_words == <<"tendered", "change:", "change due">>

\* mutant: the medium tier tested before the strong tier
is_receipt_medium_tier_first(text, field_keys, is_promo) ==
    LET has_transaction_id == AnyIn(transaction_patterns, text)
        has_card_payment == AnyIn(card_types, text) \/ AnyIn(payment_indicators, text)
        has_cash_payment == AnyIn(cash_indicators, text)
        has_payment_method == has_card_payment \/ has_cash_payment
        has_merchant_context == AnyIn(merchant_indicators, text)
        has_receipt_word == AnyIn(receipt_keywords, text)
        has_payment_complete == AnyIn(payment_complete_words, text)
        has_multiple_amounts == count_amounts(text) >= 3
    IN  IF is_promo
        THEN [hit |-> FALSE, details |-> [rejected_reason |-> "promotional"]]
        ELSE IF has_merchant_context /\ has_payment_method
        THEN [hit |-> TRUE,
              details |-> [rule |-> "merchant_payment",
                           has_merchant_context |-> TRUE,
                           has_payment_method |-> TRUE]]
        ELSE IF has_transaction_id /\ has_payment_method
        THEN [hit |-> TRUE,
              details |-> [rule |-> "strong_transaction",
                           has_transaction_id |-> TRUE,
                           has_payment_method |-> TRUE]]
        ELSE IF has_receipt_word /\ has_payment_complete /\ has_multiple_amounts
        THEN [hit |-> TRUE,
              details |-> [rule |-> "weak_combined",
                           has_receipt_word |-> TRUE,
                           has_payment_complete |-> TRUE,
                           amount_count |-> count_amounts(text)]]
        ELSE [hit |-> FALSE,
              details |-> [has_transaction_id |-> has_transaction_id,
                           has_payment_method |-> has_payment_method,
                           has_merchant_context |-> has_merchant_context]]

is_receipt(text, field_keys, is_promo) ==
    LET has_transaction_id == AnyIn(transaction_patterns, text)
        has_card_payment == AnyIn(card_types, text) \/ AnyIn(payment_indicators, text)
        has_cash_payment == AnyIn(cash_indicators, text)
        has_payment_method == has_card_payment \/ has_cash_payment
        has_merchant_context == AnyIn(merchant_indicators, text)
        has_receipt_word == AnyIn(receipt_keywords, text)
        has_payment_complete == AnyIn(payment_complete_words, text)
        has_multiple_amounts == count_amounts(text) >= 3
    IN  IF is_promo
        THEN [hit |-> FALSE, details |-> [rejected_reason |-> "promotional"]]
        ELSE IF has_transaction_id /\ has_payment_method
        THEN [hit |-> TRUE,
              details |-> [rule |-> "strong_transaction",
                           has_transaction_id |-> TRUE,
                           has_payment_method |-> TRUE]]
        ELSE IF has_merchant_context /\ has_payment_method
        THEN [hit |-> TRUE,
              details |-> [rule |-> "merchant_payment",
                           has_merchant_context |-> TRUE,
                           has_payment_method |-> TRUE]]
        ELSE IF has_receipt_word /\ has_payment_complete /\ has_multiple_amounts
        THEN [hit |-> TRUE,
              details |-> [rule |-> "weak_combined",
                           has_receipt_word |-> TRUE,
                           has_payment_complete |-> TRUE,
                           amount_count |-> count_amounts(text)]]
        ELSE [hit |-> FALSE,
              details |-> [has_transaction_id |-> has_transaction_id,
                           has_payment_method |-> has_payment_method,
                           has_merchant_context |-> has_merchant_context]]

(***************************************************************************)
(* Bill statement detector.                                                *)
(***************************************************************************)
billing_terms ==
    <<"billing statement", "statement of account", "billing period", "statement date">>

payment_due ==
    <<"amount due", "total due", "balance due", "minimum payment", "please pay">>

account_terms == <<"account number", "previous balance", "current charges", "new balance">>

service_terms ==
    <<"utility bill", "service period", "usage", "kwh", "therms", "medical bill">>

invoice_terms == <<"invoice number", "invoice date">>

\* mutant: a detector for which a payment-due term is enough
is_bill_statement_on_payment_due(text) ==
    LET has_billing_term == AnyIn(billing_terms, text)
        has_payment_due == AnyIn(payment_due, text)
        has_account_term == AnyIn(account_terms, text)
        has_service_term == AnyIn(service_terms, text)
        has_invoice == AnyIn(invoice_terms, text)
        matched_rule ==
            IF has_billing_term THEN "billing_term"
            ELSE IF has_payment_due THEN "payment_due"
            ELSE "None"
    IN  [hit |-> matched_rule # "None",
         details |-> [has_billing_term |-> has_billing_term,
                      has_payment_due |-> has_payment_due,
                      has_account_term |-> has_account_term,
                      has_service_term |-> has_service_term,
                      has_invoice |-> has_invoice,
                      matched_rule |-> matched_rule]]

is_bill_statement(text) ==
    LET has_billing_term == AnyIn(billing_terms, text)
        has_payment_due == AnyIn(payment_due, text)
        has_account_term == AnyIn(account_terms, text)
        has_service_term == AnyIn(service_terms, text)
        has_invoice == AnyIn(invoice_terms, text)
        matched_rule ==
            IF has_billing_term THEN "billing_term"
            ELSE IF has_invoice /\ has_payment_due THEN "invoice_payment"
            ELSE IF has_service_term /\ has_payment_due THEN "service_payment"
            ELSE IF has_account_term /\ has_payment_due THEN "account_payment"
            ELSE "None"
    IN  [hit |-> matched_rule # "None",
         details |-> [has_billing_term |-> has_billing_term,
                      has_payment_due |-> has_payment_due,
                      has_account_term |-> has_account_term,
                      has_service_term |-> has_service_term,
                      has_invoice |-> has_invoice,
                      matched_rule |-> matched_rule]]

(***************************************************************************)
(* Letter detector.                                                        *)
(***************************************************************************)
salutations == <<"dear ", "to whom it may concern", "hello ", "hi ", "greetings">>

closings ==
    <<"sincerely", "regards", "best regards", "best", "yours truly",
      "respectfully", "cordially", "warm regards">>

\* mutant: the letter detector without its promotional veto
is_letter_without_promo_veto(text, is_promo) ==
    LET has_salutation == AnyIn(salutations, text)
        has_closing == AnyIn(closings, text)
    IN  [hit |-> has_salutation /\ has_closing,
         details |-> [has_salutation |-> has_salutation,
                      has_closing |-> has_closing]]

\* mutant: a letter detector for which a salutation is enough
is_letter_on_salutation(text, is_promo) ==
    LET has_salutation == AnyIn(salutations, text)
        has_closing == AnyIn(closings, text)
    IN  IF is_promo
        THEN [hit |-> FALSE, details |-> [rejected_reason |-> "promotional"]]
        ELSE [hit |-> has_salutation,
              details |-> [has_salutation |-> has_salutation,
                           has_closing |-> has_closing]]

is_letter(text, is_promo) ==
    LET has_salutation == AnyIn(salutations, text)
        has_closing == AnyIn(closings, text)
    IN  IF is_promo
        THEN [hit |-> FALSE, details |-> [rejected_reason |-> "promotional"]]
        ELSE [hit |-> has_salutation /\ has_closing,
              details |-> [has_salutation |-> has_salutation,
                           has_closing |-> has_closing]]

(***************************************************************************)
(* ClassificationService.                                                  *)
(***************************************************************************)
DocumentType ==
    {"receipt", "promotional", "billStatement", "creditCard", "insuranceCard",
     "letter", "generic"}

NoHint == "None"

\* mutant: a banding without the band one below the maximum
_calculate_confidence_without_second_band(signal_count, max_signals) ==
    IF signal_count >= max_signals THEN 95
    ELSE IF signal_count >= 2 THEN 75
    ELSE 60

_calculate_confidence(signal_count, max_signals) ==
    IF signal_count >= max_signals THEN 95
    ELSE IF signal_count >= max_signals - 1 THEN 85
    ELSE IF signal_count >= 2 THEN 75
    ELSE 60

\* haystack = (text + " " + " ".join(field_values)).lower()
Haystack(ocr_text, fields) ==
    LET text == Lower(ocr_text)
        field_values == [k \in 1..Len(fields) |-> Lower(fields[k].value)]
    IN  Lower(text \o " " \o Join(" ", field_values))

\* mutant: the chain with the insurance card tested before promotional
resolve_priority_insurance_first(signals, default_type) ==
    LET details == signals.details
        rule == Get(details.receipt, "rule", "")
    IN  IF signals.insurance_card
        THEN [document_type |-> "insuranceCard",
              confidence |-> IF Get(details.insurance_card, "has_rx_bin", FALSE)
                             THEN 95
                             ELSE _calculate_confidence(
                                      Get(details.insurance_card, "signal_count", 0), 4)]
        ELSE IF signals.promotional
        THEN [document_type |-> "promotional",
              confidence |-> _calculate_confidence(
                                 Get(details.promotional, "signal_count", 0), 5)]
        ELSE IF signals.credit_card
        THEN [document_type |-> "creditCard",
              confidence |-> IF Get(details.credit_card, "has_issuer_name", FALSE)
                             THEN 90 ELSE 75]
        ELSE IF signals.receipt
        THEN [document_type |-> "receipt",
              confidence |-> IF rule = "strong_transaction" THEN 95
                             ELSE IF rule = "merchant_payment" THEN 85
                             ELSE 70]
        ELSE IF signals.bill
        THEN [document_type |-> "billStatement",
              confidence |-> IF Get(details.bill, "has_billing_term", FALSE)
                             THEN 90 ELSE 75]
        ELSE IF signals.letter
        THEN [document_type |-> "letter", confidence |-> 80]
        ELSE [document_type |-> default_type, confidence |-> 30]

\* mutant: the chain with the bill statement tested before the credit card
resolve_priority_bill_before_credit(signals, default_type) ==
    LET details == signals.details
        rule == Get(details.receipt, "rule", "")
    IN  IF signals.promotional
        THEN [document_type |-> "promotional",
              confidence |-> _calculate_confidence(
                                 Get(details.promotional, "signal_count", 0), 5)]
        ELSE IF signals.insurance_card
        THEN [document_type |-> "insuranceCard",
              confidence |-> IF Get(details.insurance_card, "has_rx_bin", FALSE)
                             THEN 95
                             ELSE _calculate_confidence(
                                      Get(details.insurance_card, "signal_count", 0), 4)]
        ELSE IF signals.bill
        THEN [document_type |-> "billStatement",
              confidence |-> IF Get(details.bill, "has_billing_term", FALSE)
                             THEN 90 ELSE 75]
        ELSE IF signals.credit_card
        THEN [document_type |-> "creditCard",
              confidence |-> IF Get(details.credit_card, "has_issuer_name", FALSE)
                             THEN 90 ELSE 75]
        ELSE IF signals.receipt
        THEN [document_type |-> "receipt",
              confidence |-> IF rule = "strong_transaction" THEN 95
                             ELSE IF rule = "merchant_payment" THEN 85
                             ELSE 70]
        ELSE IF signals.letter
        THEN [document_type |-> "letter", confidence |-> 80]
        ELSE [document_type |-> default_type, confidence |-> 30]

\* mutant: the chain without its letter branch
resolve_priority_without_letter(signals, default_type) ==
    LET details == signals.details
        rule == Get(details.receipt, "rule", "")
    IN  IF signals.promotional
        THEN [document_type |-> "promotional",
              confidence |-> _calculate_confidence(
                                 Get(details.promotional, "signal_count", 0), 5)]
        ELSE IF signals.insurance_card
        THEN [document_type |-> "insuranceCard",
              confidence |-> IF Get(details.insurance_card, "has_rx_bin", FALSE)
                             THEN 95
                             ELSE _calculate_confidence(
                                      Get(details.insurance_card, "signal_count", 0), 4)]
        ELSE IF signals.credit_card
        THEN [document_type |-> "creditCard",
              confidence |-> IF Get(details.credit_card, "has_issuer_name", FALSE)
                             THEN 90 ELSE 75]
        ELSE IF signals.receipt
        THEN [document_type |-> "receipt",
              confidence |-> IF rule = "strong_transaction" THEN 95
                             ELSE IF rule = "merchant_payment" THEN 85
                             ELSE 70]
        ELSE IF signals.bill
        THEN [document_type |-> "billStatement",
              confidence |-> IF Get(details.bill, "has_billing_term", FALSE)
                             THEN 90 ELSE 75]
        ELSE [document_type |-> default_type, confidence |-> 30]

\* the PRIORITY ORDER chain of classify: the first detector that fired gives
\* the document type and its confidence
resolve_priority(signals, default_type) ==
    LET details == signals.details
        rule == Get(details.receipt, "rule", "")
    IN  IF signals.promotional
        THEN [document_type |-> "promotional",
              confidence |-> _calculate_confidence(
                                 Get(details.promotional, "signal_count", 0), 5)]
        ELSE IF signals.insurance_card
        THEN [document_type |-> "insuranceCard",
              confidence |-> IF Get(details.insurance_card, "has_rx_bin", FALSE)
                             THEN 95
                             ELSE _calculate_confidence(
                                      Get(details.insurance_card, "signal_count", 0), 4)]
        ELSE IF signals.credit_card
        THEN [document_type |-> "creditCard",
              confidence |-> IF Get(details.credit_card, "has_issuer_name", FALSE)
                             THEN 90 ELSE 75]
        ELSE IF signals.receipt
        THEN [document_type |-> "receipt",
              confidence |-> IF rule = "strong_transaction" THEN 95
                             ELSE IF rule = "merchant_payment" THEN 85
                             ELSE 70]
        ELSE IF signals.bill
        THEN [document_type |-> "billStatement",
              confidence |-> IF Get(details.bill, "has_billing_term", FALSE)
                             THEN 90 ELSE 75]
        ELSE IF signals.letter
        THEN [document_type |-> "letter", confidence |-> 80]
        ELSE [document_type |-> default_type, confidence |-> 30]

classify(ocr_text, fields, hint, default_type) ==
    LET field_keys == [k \in 1..Len(fields) |-> Lower(fields[k].key)]
        field_values == [k \in 1..Len(fields) |-> Lower(fields[k].value)]
        haystack == Haystack(ocr_text, fields)
        promotional == is_promotional(haystack)
        insurance == is_insurance_card(haystack, field_keys)
        credit == is_credit_card(haystack, field_values, field_keys)
        receipt == is_receipt(haystack, field_keys, promotional.hit)
        bill == is_bill_statement(haystack)
        letter == is_letter(haystack, promotional.hit)
        signals == [promotional |-> promotional.hit,
                    receipt |-> receipt.hit,
                    bill |-> bill.hit,
                    insurance_card |-> insurance.hit,
                    credit_card |-> credit.hit,
                    letter |-> letter.hit,
                    details |-> [promotional |-> promotional.details,
                                 receipt |-> receipt.details,
                                 insurance_card |-> insurance.details,
                                 credit_card |-> credit.details,
                                 bill |-> bill.details,
                                 letter |-> letter.details]]
        resolved == resolve_priority(signals, default_type)
    IN  [document_type |-> resolved.document_type,
         confidence |-> resolved.confidence,
         signals |-> signals]

(***************************************************************************)
(* ExtractionService: pattern extraction, type-aware refinement and the    *)
(* type-specific extractors.  A field's confidence is in thousandths       *)
(* (0.85 is 850), so that the refinement's factor 0.9 stays exact.         *)
(***************************************************************************)
FieldModel(key, value, confidence, source) ==
    [key |-> key, value |-> value, confidence |-> confidence, source |-> source]

CharsOf(s) == {CharAt(s, i) : i \in 1..Len(s)}
Letters == CharsOf(UpperLetters) \cup CharsOf(LowerLetters)
Digits == CharsOf(DigitChars)
Spaces == {" ", "\n", "\t", "\r"}

RECURSIVE RunOf(_, _, _)
\* length of the maximal run of characters of a class starting at position i
RunOf(text, i, chars) ==
    IF i <= Len(text) /\ CharAt(text, i) \in chars
    THEN 1 + RunOf(text, i + 1, chars)
    ELSE 0

\* \b at position i (between the characters i - 1 and i)
WordBoundary(text, i) == IsWordChar(CharAt(text, i - 1)) # IsWordChar(CharAt(text, i))

\* a literal of a re.IGNORECASE pattern tried at position i: the position
\* after it, 0 when it does not match
LiteralAt(text, i, literal) ==
    IF /\ i >= 1
       /\ i + Len(literal) - 1 <= Len(text)
       /\ Lower(SubSeq(text, i, i + Len(literal) - 1)) = literal
    THEN i + Len(literal)
    ELSE 0

\* position after an optional character  c?  at position i
OptionalChar(text, i, c) == IF CharAt(text, i) = c THEN i + 1 ELSE i

RECURSIVE FindIter(_, _)
\* re.finditer: the starts of the leftmost non-overlapping matches from
\* position i on; ends[j] is the position after the match tried at j, 0 when
\* the pattern does not match there
FindIter(ends, i) ==
    LET start == FirstMatchFrom({j \in i..Len(ends) : ends[j] > 0})
    IN  IF start = 0 THEN <<>>
        ELSE <<start>> \o FindIter(ends, ends[start])

\* re.search: the start of the leftmost match, 0 when there is none
Search(ends) == FirstMatchFrom({j \in 1..Len(ends) : ends[j] > 0})

\* amount_pattern  \$\s*(\d+(?:\.\d{2})?)  tried at position i
AmountEnd(text, i) ==
    LET j == SkipSpaces(text, i + 1)
        n == DigitRun(text, j)
    IN  IF CharAt(text, i) = "$" /\ n >= 1
        THEN IF CharAt(text, j + n) = "." /\ DigitsAt(text, j + n + 1, 2)
             THEN j + n + 3
             ELSE j + n
        ELSE 0

\* date_pattern  \b(\d{1,2}[/-]\d{1,2}[/-]\d{2,4})\b  tried at position i
DateEnd(text, i) ==
    LET a == DigitRun(text, i)
        b == DigitRun(text, i + a + 1)
        c == DigitRun(text, i + a + b + 2)
    IN  IF /\ WordBoundary(text, i)
           /\ a \in 1..2
           /\ CharAt(text, i + a) \in {"/", "-"}
           /\ b \in 1..2
           /\ CharAt(text, i + a + b + 1) \in {"/", "-"}
           /\ c \in 2..4
           /\ WordBoundary(text, i + a + b + c + 2)
        THEN i + a + b + c + 2
        ELSE 0

EmailLocalChars == Letters \cup Digits \cup {".", "_", "%", "+", "-"}
EmailDomainChars == Letters \cup Digits \cup {".", "-"}
EmailTldChars == Letters \cup {"|"}

\* email_pattern  \b[A-Za-z0-9._%+-]+@[A-Za-z0-9.-]+\.[A-Z|a-z]{2,}\b  tried
\* at position i: the domain and the final label give back characters, the
\* longest domain first and for it the longest final label
EmailEnd(text, i) ==
    LET local == RunOf(text, i, EmailLocalChars)
        d0 == i + local + 1
        domain == RunOf(text, d0, EmailDomainChars)
        \* <<k, t>>: a domain part of k characters, ".", a final label of t
        splits ==
            {kt \in (1..domain) \X (2..Len(text)) :
                /\ CharAt(text, d0 + kt[1]) = "."
                /\ kt[2] <= RunOf(text, d0 + kt[1] + 1, EmailTldChars)
                /\ WordBoundary(text, d0 + kt[1] + 1 + kt[2])}
        first == CHOOSE kt \in splits :
                     \A other \in splits :
                         \/ kt[1] > other[1]
                         \/ kt[1] = other[1] /\ kt[2] >= other[2]
    IN  IF /\ WordBoundary(text, i)
           /\ local >= 1
           /\ CharAt(text, i + local) = "@"
           /\ splits # {}
        THEN d0 + first[1] + 1 + first[2]
        ELSE 0

\* [-.\s]?  at position i
OptionalPhoneSeparator(text, i) ==
    IF CharAt(text, i) \in ({"-", "."} \cup Spaces) THEN i + 1 ELSE i

\* \d{3}[-.\s]?\d{4}  tried at position i
PhoneTailEnd(text, i) ==
    LET j == OptionalPhoneSeparator(text, i + 3)
    IN  IF DigitsAt(text, i, 3) /\ DigitsAt(text, j, 4) THEN j + 4 ELSE 0

\* phone_pattern
\* \b(\d{3}[-.\s]?\d{3}[-.\s]?\d{4}|\(\d{3}\)\s*\d{3}[-.\s]?\d{4})\b
\* tried at position i: the plain alternative first, then the bracketed one
PhoneEnd(text, i) ==
    LET plain ==
            IF DigitsAt(text, i, 3)
            THEN PhoneTailEnd(text, OptionalPhoneSeparator(text, i + 3))
            ELSE 0
        bracketed ==
            IF /\ CharAt(text, i) = "("
               /\ DigitsAt(text, i + 1, 3)
               /\ CharAt(text, i + 4) = ")"
            THEN PhoneTailEnd(text, SkipSpaces(text, i + 5))
            ELSE 0
    IN  IF ~WordBoundary(text, i) THEN 0
        ELSE IF plain > 0 /\ WordBoundary(text, plain) THEN plain
        ELSE IF bracketed > 0 /\ WordBoundary(text, bracketed) THEN bracketed
        ELSE 0

_extract_pattern_fields(text) ==
    LET amount_ends == [i \in 1..Len(text) |-> AmountEnd(text, i)]
        amounts == FindIter(amount_ends, 1)
        date_ends == [i \in 1..Len(text) |-> DateEnd(text, i)]
        dates == FindIter(date_ends, 1)
        email_ends == [i \in 1..Len(text) |-> EmailEnd(text, i)]
        emails == FindIter(email_ends, 1)
        phone_ends == [i \in 1..Len(text) |-> PhoneEnd(text, i)]
        phones == FindIter(phone_ends, 1)
    IN  [k \in 1..Len(amounts) |->
            FieldModel("amount",
                       "$" \o SubSeq(text, SkipSpaces(text, amounts[k] + 1),
                                     amount_ends[amounts[k]] - 1),
                       850, "pattern")]
        \o [k \in 1..Len(dates) |->
               FieldModel("date", SubSeq(text, dates[k], date_ends[dates[k]] - 1),
                          900, "pattern")]
        \o [k \in 1..Len(emails) |->
               FieldModel("email", SubSeq(text, emails[k], email_ends[emails[k]] - 1),
                          950, "pattern")]
        \o [k \in 1..Len(phones) |->
               FieldModel("phone", SubSeq(text, phones[k], phone_ends[phones[k]] - 1),
                          850, "pattern")]

\* mutant: a refinement that relabels for Promotional only
_refine_fields_by_type_promotional_only(fields, document_type, text) ==
    [k \in 1..Len(fields) |->
        IF document_type = "promotional" /\ fields[k].key = "amount"
        THEN FieldModel("offer_amount", fields[k].value,
                        (fields[k].confidence * 9) \div 10, fields[k].source)
        ELSE fields[k]]

_refine_fields_by_type(fields, document_type, text) ==
    [k \in 1..Len(fields) |->
        IF document_type = "promotional" /\ fields[k].key = "amount"
        THEN FieldModel("offer_amount", fields[k].value,
                        (fields[k].confidence * 9) \div 10, fields[k].source)
        ELSE IF document_type = "billStatement" /\ fields[k].key = "amount"
        THEN FieldModel("amount_due", fields[k].value,
                        (fields[k].confidence * 9) \div 10, fields[k].source)
        ELSE fields[k]]

\* [A-Z0-9]  and  [A-Z0-9-]  under re.IGNORECASE
CodeChars == Letters \cup Digits
NumberChars == Letters \cup Digits \cup {"-"}

RECURSIVE LabelFrom(_, _, _, _)
\* the literals label[k..] with  \s*  between them, tried at position i
LabelFrom(text, i, label, k) ==
    LET j == LiteralAt(text, i, label[k])
    IN  IF j = 0 \/ k = Len(label) THEN j
        ELSE LabelFrom(text, SkipSpaces(text, j), label, k + 1)

\* <label>:?\s*  tried at position i, the label being literals with  \s*
\* between them: the position at which the captured group starts, 0 when the
\* label does not match
GroupAfterLabel(text, i, label) ==
    LET j == LabelFrom(text, i, label, 1)
    IN  IF j = 0 THEN 0 ELSE SkipSpaces(text, OptionalChar(text, j, ":"))

\* a search for  <label>:?\s*(<chars>{min,})  over the text: the captured
\* group of the leftmost match as a one-element list, the empty list when
\* there is no match
LabelledValue(text, label, chars, min) ==
    LET ends == [i \in 1..Len(text) |->
                    LET g == GroupAfterLabel(text, i, label)
                    IN  IF g > 0 /\ RunOf(text, g, chars) >= min
                        THEN g + RunOf(text, g, chars)
                        ELSE 0]
        start == Search(ends)
    IN  IF start = 0 THEN <<>>
        ELSE <<SubSeq(text, GroupAfterLabel(text, start, label), ends[start] - 1)>>

\* mutant: the last element of a sequence of search results that is a match
LastFound(results) ==
    LET found == {k \in 1..Len(results) : results[k] # <<>>}
    IN  IF found = {} THEN <<>>
        ELSE results[CHOOSE k \in found : \A other \in found : k >= other]

\* the first element of a sequence of search results that is a match
FirstFound(results) ==
    LET found == {k \in 1..Len(results) : results[k] # <<>>}
    IN  IF found = {} THEN <<>>
        ELSE results[CHOOSE k \in found : \A other \in found : k <= other]

\* [A-Za-z]+\s+\d{1,2},?\s+\d{4}  tried at position i
LongDateEnd(text, i) ==
    LET word == RunOf(text, i, Letters)
        day == i + word + RunOf(text, i + word, Spaces)
        d == DigitRun(text, day)
        gap == OptionalChar(text, day + d, ",")
        year == gap + RunOf(text, gap, Spaces)
    IN  IF /\ word >= 1
           /\ day > i + word
           /\ d \in 1..2
           /\ year > gap
           /\ DigitsAt(text, year, 4)
        THEN year + 4
        ELSE 0

\* \d{1,2}/\d{1,2}/\d{4}  tried at position i
SlashDateEnd(text, i) ==
    LET a == DigitRun(text, i)
        b == DigitRun(text, i + a + 1)
    IN  IF /\ a \in 1..2
           /\ CharAt(text, i + a) = "/"
           /\ b \in 1..2
           /\ CharAt(text, i + a + b + 1) = "/"
           /\ DigitsAt(text, i + a + b + 2, 4)
        THEN i + a + b + 6
        ELSE 0

\* <stem>s?:?\s*([A-Za-z]+\s+\d{1,2},?\s+\d{4})  tried at position i: the
\* bounds <<group start, end>> of the match with the optional "s" taken
\* first and given back when the rest then fails, <<0, 0>> when neither
\* matches
ExpiryAt(text, i, stem) ==
    LET j == LiteralAt(text, i, stem)
        with_s == SkipSpaces(text, OptionalChar(text, j + 1, ":"))
        without_s == SkipSpaces(text, OptionalChar(text, j, ":"))
    IN  IF j = 0 THEN <<0, 0>>
        ELSE IF Lower(CharAt(text, j)) = "s" /\ LongDateEnd(text, with_s) > 0
        THEN <<with_s, LongDateEnd(text, with_s)>>
        ELSE IF LongDateEnd(text, without_s) > 0
        THEN <<without_s, LongDateEnd(text, without_s)>>
        ELSE <<0, 0>>

\* a search for  <stem>s?:?\s*([A-Za-z]+\s+\d{1,2},?\s+\d{4})
ExpiryValue(text, stem) ==
    LET ends == [i \in 1..Len(text) |-> ExpiryAt(text, i, stem)[2]]
        start == Search(ends)
    IN  IF start = 0 THEN <<>>
        ELSE <<SubSeq(text, ExpiryAt(text, start, stem)[1], ends[start] - 1)>>

\* a search for  <label>:?\s*(\d{1,2}/\d{1,2}/\d{4})
LabelledSlashDate(text, label) ==
    LET ends == [i \in 1..Len(text) |->
                    LET g == GroupAfterLabel(text, i, label)
                    IN  IF g > 0 THEN SlashDateEnd(text, g) ELSE 0]
        start == Search(ends)
    IN  IF start = 0 THEN <<>>
        ELSE <<SubSeq(text, GroupAfterLabel(text, start, label), ends[start] - 1)>>

\* a search for  by\s+(\d{1,2}/\d{1,2}/\d{4})
ByDateValue(text) ==
    LET group(i) == SkipSpaces(text, LiteralAt(text, i, "by"))
        ends == [i \in 1..Len(text) |->
                    IF LiteralAt(text, i, "by") > 0
                       /\ group(i) > LiteralAt(text, i, "by")
                    THEN SlashDateEnd(text, group(i))
                    ELSE 0]
        start == Search(ends)
    IN  IF start = 0 THEN <<>>
        ELSE <<SubSeq(text, group(start), ends[start] - 1)>>

\* promo_patterns, tried in order
promo_patterns(text) ==
    <<LabelledValue(text, <<"promo", "code">>, CodeChars, 1),
      LabelledValue(text, <<"use", "code">>, CodeChars, 1),
      LabelledValue(text, <<"code">>, CodeChars, 4)>>

\* expiry_patterns, tried in order
expiry_patterns(text) ==
    <<ExpiryValue(text, "expire"), ExpiryValue(text, "end"), ByDateValue(text)>>

\* the one field a matched pattern gives, no field without a match
FieldIfFound(key, found, confidence) ==
    [k \in 1..Len(found) |-> FieldModel(key, found[k], confidence, "pattern")]

_extract_promotional_fields(text) ==
    FieldIfFound("promo_code", FirstFound(promo_patterns(text)), 950)
        \o FieldIfFound("offer_expiry", FirstFound(expiry_patterns(text)), 900)

\* receipt_patterns, tried in order
receipt_patterns(text) ==
    <<LabelledValue(text, <<"receipt", "#">>, NumberChars, 1),
      LabelledValue(text, <<"transaction", "#">>, NumberChars, 1),
      LabelledValue(text, <<"order", "#">>, NumberChars, 1)>>

\* a search for total_pattern  total:?\s*\$\s*(\d+\.\d{2})
total_pattern(text) ==
    LET group(i) ==
            LET j == LiteralAt(text, i, "total")
                dollar == SkipSpaces(text, OptionalChar(text, j, ":"))
            IN  IF j > 0 /\ CharAt(text, dollar) = "$"
                THEN SkipSpaces(text, dollar + 1)
                ELSE 0
        ends == [i \in 1..Len(text) |->
                    LET g == group(i)
                        n == DigitRun(text, g)
                    IN  IF /\ g > 0
                           /\ n >= 1
                           /\ CharAt(text, g + n) = "."
                           /\ DigitsAt(text, g + n + 1, 2)
                        THEN g + n + 3
                        ELSE 0]
        start == Search(ends)
    IN  IF start = 0 THEN <<>>
        ELSE <<"$" \o SubSeq(text, group(start), ends[start] - 1)>>

_extract_receipt_fields(text) ==
    FieldIfFound("transaction_id", FirstFound(receipt_patterns(text)), 950)
        \o FieldIfFound("total_amount", total_pattern(text), 950)

\* due_date_patterns, tried in order
due_date_patterns(text) ==
    <<LabelledSlashDate(text, <<"due", "date">>),
      LabelledSlashDate(text, <<"payment", "due">>)>>

\* a search for account_pattern  account\s*#?:?\s*([A-Z0-9-]+)
account_pattern(text) ==
    LET group(i) ==
            LET j == LiteralAt(text, i, "account")
            IN  IF j = 0 THEN 0
                ELSE SkipSpaces(text,
                         OptionalChar(text,
                             OptionalChar(text, SkipSpaces(text, j), "#"), ":"))
        ends == [i \in 1..Len(text) |->
                    IF group(i) > 0 /\ RunOf(text, group(i), NumberChars) >= 1
                    THEN group(i) + RunOf(text, group(i), NumberChars)
                    ELSE 0]
        start == Search(ends)
    IN  IF start = 0 THEN <<>>
        ELSE <<SubSeq(text, group(start), ends[start] - 1)>>

_extract_bill_fields(text) ==
    FieldIfFound("due_date", FirstFound(due_date_patterns(text)), 950)
        \o FieldIfFound("account_number", account_pattern(text), 900)

\* ExtractionService.extract_fields (the LLM enrichment is not called)
extract_fields(ocr_text, document_type) ==
    LET fields == _extract_pattern_fields(ocr_text)
        refined == _refine_fields_by_type(fields, document_type, ocr_text)
    IN  refined \o
        (IF document_type = "promotional"
         THEN _extract_promotional_fields(ocr_text)
         ELSE IF document_type = "receipt"
         THEN _extract_receipt_fields(ocr_text)
         ELSE IF document_type = "billStatement"
         THEN _extract_bill_fields(ocr_text)
         ELSE <<>>)

(***************************************************************************)
(* ExtractionService._extract_with_llm.  What the provider's extract_json  *)
(* does is an input: it raises, or it returns a parsed JSON value, of      *)
(* which the model keeps the shape and the entries of its "fields" list.   *)
(* An entry is a record holding some of key, value and confidence.         *)
(***************************************************************************)
\* FieldModel(...) as pydantic validates it: confidence within [0, 1]
ValidatedFieldModel(key, value, confidence, source) ==
    IF confidence < 0 \/ confidence > 1000
    THEN [raised |-> "ValidationError", field |-> FieldModel("", "", 0, "")]
    ELSE [raised |-> "None", field |-> FieldModel(key, value, confidence, source)]

\* FieldModel(key=field_data["key"], value=field_data["value"],
\*            confidence=field_data.get("confidence", 0.8), source="llm")
FieldFromEntry(field_data) ==
    IF "key" \notin DOMAIN field_data \/ "value" \notin DOMAIN field_data
    THEN [raised |-> "KeyError", field |-> FieldModel("", "", 0, "")]
    ELSE ValidatedFieldModel(field_data.key, field_data.value,
                             Get(field_data, "confidence", 800), "llm")

RECURSIVE AppendEntries(_, _, _)
\* the loop over result.get("fields", []) from entry i on: the fields
\* appended so far and the exception that ended the loop, if any
AppendEntries(entries, i, fields) ==
    IF i > Len(entries) THEN [raised |-> "None", fields |-> fields]
    ELSE LET made == FieldFromEntry(entries[i])
         IN  IF made.raised # "None"
             THEN [raised |-> made.raised, fields |-> fields]
             ELSE AppendEntries(entries, i + 1, Append(fields, made.field))

\* the body of the try block
LlmTryBody(outcome) ==
    IF outcome.raised # "None"
    THEN [raised |-> outcome.raised, fields |-> <<>>]
    ELSE IF outcome.shape = "not_a_dict"
    THEN [raised |-> "AttributeError", fields |-> <<>>]
    ELSE IF outcome.shape = "dict_without_fields"
    THEN [raised |-> "None", fields |-> <<>>]
    ELSE IF outcome.shape = "fields_null"
    THEN [raised |-> "TypeError", fields |-> <<>>]
    ELSE AppendEntries(outcome.fields, 1, <<>>)

\* mutant: an except block that returns the fields appended so far
_extract_with_llm_keeping_appended(outcome) ==
    [raised |-> "None", fields |-> LlmTryBody(outcome).fields]

\* _extract_with_llm: the try block, and `except Exception: return []`
_extract_with_llm(outcome) ==
    LET body == LlmTryBody(outcome)
    IN  IF body.raised # "None"
        THEN [raised |-> "None", fields |-> <<>>]
        ELSE [raised |-> "None", fields |-> body.fields]

(***************************************************************************)
(* extract_fields stage by stage, with the Field objects told apart from   *)
(* their contents: objects is every FieldModel constructed so far, in      *)
(* order of construction, and a list of fields is a list of positions in   *)
(* objects.  Appending `field` to a list appends the position of an        *)
(* existing object; FieldModel(...) constructs a new one.                  *)
(***************************************************************************)
\* the contents of the objects a list refers to
Contents(objects, fields) == [k \in 1..Len(fields) |-> objects[fields[k]]]

\* mutant: relabels the amount fields in place and keeps them in the list
RefineObjects_in_place(objects, fields, document_type) ==
    [objects |->
        [o \in 1..Len(objects) |->
            IF /\ \E k \in 1..Len(fields) : fields[k] = o
               /\ objects[o].key = "amount"
               /\ document_type \in {"promotional", "billStatement"}
            THEN FieldModel(IF document_type = "promotional"
                            THEN "offer_amount" ELSE "amount_due",
                            objects[o].value,
                            (objects[o].confidence * 9) \div 10,
                            objects[o].source)
            ELSE objects[o]],
     refined |-> fields]

RECURSIVE RefineFrom(_, _, _, _, _)
\* the loop of _refine_fields_by_type from the k-th field on
RefineFrom(objects, fields, document_type, k, refined) ==
    IF k > Len(fields) THEN [objects |-> objects, refined |-> refined]
    ELSE LET field == objects[fields[k]]
         IN  IF document_type = "promotional" /\ field.key = "amount"
             THEN RefineFrom(
                      Append(objects,
                             FieldModel("offer_amount", field.value,
                                        (field.confidence * 9) \div 10,
                                        field.source)),
                      fields, document_type, k + 1,
                      Append(refined, Len(objects) + 1))
             ELSE IF document_type = "billStatement" /\ field.key = "amount"
             THEN RefineFrom(
                      Append(objects,
                             FieldModel("amount_due", field.value,
                                        (field.confidence * 9) \div 10,
                                        field.source)),
                      fields, document_type, k + 1,
                      Append(refined, Len(objects) + 1))
             ELSE RefineFrom(objects, fields, document_type, k + 1,
                             Append(refined, fields[k]))

\* _refine_fields_by_type on objects: refined = [] and the loop
RefineObjects(objects, fields, document_type) ==
    RefineFrom(objects, fields, document_type, 1, <<>>)

\* the fields of the document-specific stage of extract_fields
SpecificFields(ocr_text, document_type) ==
    IF document_type = "promotional"
    THEN _extract_promotional_fields(ocr_text)
    ELSE IF document_type = "receipt"
    THEN _extract_receipt_fields(ocr_text)
    ELSE IF document_type = "billStatement"
    THEN _extract_bill_fields(ocr_text)
    ELSE <<>>

(***************************************************************************)
(* Inputs.  A generated document picks up to MaxLines lines of the         *)
(* vocabulary below (in vocabulary order, joined by newlines); each line   *)
(* is one that real documents carry, chosen for the detector keywords it   *)
(* holds once lower-cased.  The sample documents are the texts of the      *)
(* repository's classification tests, verbatim.                            *)
(***************************************************************************)
MaxLines == 2
MaxFields == 1

Lines ==
    <<"Earn points when you spend", "Special Offer", "Sign up today",
      "Expires 12/27",
      "Member ID: A1", "RX BIN: 004336", "Aetna PPO", "EOB",
      "Gift Card", "VISA ****1234", "4532 0151 1283 0366", "4532 1234 5678 9012",
      "Receipt #456", "Order #789 paid with Visa", "Cash", "Store #12",
      "Change due $1 $2 $3",
      "Billing Period", "Amount Due: $35.00", "Account Number: 5678",
      "Usage: 850 kWh", "Invoice Number: 1001",
      "Dear Customer,", "Sincerely,", "Dear Sir, thanks. Best regards">>

\* the strictly increasing index sequences of length 0..max over 1..n
Selections(n, max) ==
    UNION {{ix \in [1..k -> 1..n] : \A a, b \in 1..k : a < b => ix[a] < ix[b]} :
              k \in 0..max}

GeneratedTexts ==
    {Join("\n", [k \in 1..Len(ix) |-> Lines[ix[k]]]) :
        ix \in Selections(Len(Lines), MaxLines) \ {<<>>}}

\* tests/test_classification.py, test_receipt_with_promo_footer
ReceiptWithPromoFooter ==
    "\n        WALGREENS Receipt #456"
        \o "\n        TYLENOL $15.99"
        \o "\n        Total: $15.99"
        \o "\n        VISA ****1234"
        \o "\n"
        \o "\n        *** SAVE $5 ON YOUR NEXT VISIT ***"
        \o "\n        Use code: SAVE5"
        \o "\n        "

\* tests/test_classification.py, test_visa_credit_card
VisaCreditCard ==
    "\n        VISA"
        \o "\n        4532 1234 5678 9012"
        \o "\n        VALID THRU: 12/27"
        \o "\n        JOHN DOE"
        \o "\n        "

\* tests/test_classification.py, test_gas_station_receipt
GasStationReceipt ==
    "\n        Shell Gas Station"
        \o "\n        Pump #4"
        \o "\n        Gallons: 12.5"
        \o "\n        Price per gallon: $3.89"
        \o "\n        Total: $48.63"
        \o "\n        Approval Code: 123456"
        \o "\n        MASTERCARD ****9012"
        \o "\n        "

\* tests/test_classification.py, test_retail_coupon
RetailCoupon ==
    "\n        SAVE 20% ON YOUR NEXT PURCHASE"
        \o "\n"
        \o "\n        Use code: SAVE20"
        \o "\n        Valid through December 31, 2025"
        \o "\n        "

\* tests/test_classification.py, test_cash_receipt
CashReceipt ==
    "\n        Corner Store"
        \o "\n        Receipt #123"
        \o "\n        Coffee: $2.50"
        \o "\n        Total: $2.50"
        \o "\n        Cash"
        \o "\n        Change: $7.50"
        \o "\n        "

\* tests/test_classification.py, test_health_insurance_card
HealthInsuranceCard ==
    "\n        Premera Blue Cross"
        \o "\n        Member ID: ABC123456789"
        \o "\n        Group: 12345"
        \o "\n        RX BIN: 004336"
        \o "\n        RX PCN: ADV"
        \o "\n        RX GRP: BLUE"
        \o "\n        Copay: $20 PCP / $40 Specialist"
        \o "\n        "

\* tests/test_classification.py, test_gift_card_not_credit_card
GiftCard ==
    "\n        STARBUCKS GIFT CARD"
        \o "\n        6001 2345 6789 0123"
        \o "\n        Balance: $50.00"
        \o "\n        "

\* tests/test_classification.py, test_promotional_letter
PromotionalLetter ==
    "\n        Dear Customer,"
        \o "\n"
        \o "\n        Join our rewards program and earn bonus points!"
        \o "\n        Sign up today and receive 1000 points."
        \o "\n"
        \o "\n        Sincerely,"
        \o "\n        Marketing Team"
        \o "\n        "

\* tests/test_classification.py, test_dental_insurance_card, with a copay
\* line in the place of its coverage line
DentalInsuranceCard ==
    "Delta Dental\nSubscriber ID: XYZ987654321\nPlan Type: PPO\nCopay: $20"

SampleTexts ==
    {ReceiptWithPromoFooter, VisaCreditCard, GasStationReceipt, RetailCoupon,
     CashReceipt, HealthInsuranceCard, GiftCard, PromotionalLetter,
     DentalInsuranceCard}

Texts == GeneratedTexts \cup SampleTexts

\* pre-extracted fields a caller may send along (FieldModel)
FieldChoices ==
    <<[key |-> "Card Number", value |-> "4532015112830366",
       confidence |-> 950, source |-> "ocr"],
      [key |-> "note", value |-> "Offer expires soon",
       confidence |-> 800, source |-> "ocr"]>>

FieldLists ==
    {[k \in 1..Len(ix) |-> FieldChoices[ix[k]]] :
        ix \in Selections(Len(FieldChoices), MaxFields)}

Hints == {NoHint, "receipt"}

NoRequest == [ocr_text |-> "", fields |-> <<>>, hint |-> NoHint]
NoResponse == [document_type |-> "None", confidence |-> 0, signals |-> <<>>]

(***************************************************************************)
(* The API as a whole: its callers, requests, settings and provider       *)
(* factory.  POST /classify, /extract and /analyze are served for          *)
(* concurrent callers.  A handler is cut into the steps at which it calls  *)
(* the services, and the steps of different callers interleave freely;     *)
(* the only process-wide objects are the settings and the provider cached  *)
(* by LLMProviderFactory.                                                  *)
(***************************************************************************)
Callers == {"a", "b"}

\* ClassifyRequest / AnalyzeRequest example text (app/models/requests.py)
Wa529Offer ==
    "Get $50 when you open a WA529 account by 12/12/2025.\nUse promo code Offer25."

\* a mailer with a checkout code ahead of its promo code
TwoCodes == "Use code SAVE5 at checkout. Use promo code Offer25."

\* tests/test_classification.py, test_cvs_receipt
CvsReceipt ==
    "\n        CVS Pharmacy"
        \o "\n        Receipt #456"
        \o "\n        ADVIL $12.99"
        \o "\n        Total: $12.99"
        \o "\n        VISA ****1234"
        \o "\n        "

\* the same receipt with a subtotal line
SubtotalReceipt ==
    "CVS Pharmacy\nReceipt #456\nSubtotal: $11.99\nTotal: $12.99\nVISA ****1234"

\* the same receipt with the pharmacy's RX BIN printed on it
RxBinReceipt ==
    "CVS Pharmacy\nReceipt #456\nTotal: $12.99\nVISA ****1234\nRX BIN: 004336"

\* a utility bill
UtilityBill ==
    "Billing Period: June\nAmount Due: $35.00\nDue Date: 07/15/2025\nAccount #: 12-34"

ServiceTexts ==
    {Wa529Offer, TwoCodes, CvsReceipt, SubtotalReceipt, RxBinReceipt, UtilityBill}

\* pre-extracted fields of a /classify request
ServiceFieldLists == {<<>>, <<FieldChoices[1]>>}

\* Settings(): the defaults, and the environment of tests/conftest.py
DefaultSettings ==
    [llm_provider |-> "openai",
     openai_api_key |-> "", anthropic_api_key |-> "", google_api_key |-> "",
     openai_model |-> "gpt-4-turbo-preview",
     anthropic_model |-> "claude-3-sonnet-20240229",
     google_model |-> "gemini-pro"]

TestSettings == [DefaultSettings EXCEPT !.openai_api_key = "test-key-not-used"]

SettingsChoices == {DefaultSettings, TestSettings}

get_api_key(s, provider) ==
    IF provider = "openai" THEN s.openai_api_key
    ELSE IF provider = "anthropic" THEN s.anthropic_api_key
    ELSE s.google_api_key

get_model_name(s, provider) ==
    IF provider = "openai" THEN s.openai_model
    ELSE IF provider = "anthropic" THEN s.anthropic_model
    ELSE s.google_model

\* LLMProviderFactory._instance is None
NoInstance == [name |-> "None", api_key |-> "", model_name |-> ""]

\* LLMProviderFactory.create_provider(): the provider, or the ValueError
\* raised for a missing API key
create_provider(s) ==
    LET provider_type == s.llm_provider
        api_key == get_api_key(s, provider_type)
    IN  IF api_key = ""
        THEN [raised |-> "ValueError", provider |-> NoInstance]
        ELSE [raised |-> "None",
              provider |-> [name |-> provider_type,
                            api_key |-> api_key,
                            model_name |-> get_model_name(s, provider_type)]]

\* LLMProviderFactory.get_provider() on a given cache: the cached provider,
\* or a newly created one
get_provider(instance, s) ==
    IF instance = NoInstance
    THEN create_provider(s)
    ELSE [raised |-> "None", provider |-> instance]

\* the document types of the /extract requests
ServiceTypes == {"promotional", "receipt", "billStatement", "generic"}

\* ClassificationService.classify over the requests the callers send,
\* computed once per request
ClassifyResults ==
    {[ocr_text |-> text, fields |-> fields, hint |-> hint,
      result |-> classify(text, fields, hint, "generic")] :
        text \in ServiceTexts, fields \in ServiceFieldLists, hint \in Hints}

ClassifyResultOf(text, fields, hint) ==
    (CHOOSE r \in ClassifyResults :
         r.ocr_text = text /\ r.fields = fields /\ r.hint = hint).result

\* ExtractionService.extract_fields over the texts the callers send and every
\* document type, computed once per text and type
ExtractResults ==
    {[ocr_text |-> text, document_type |-> document_type,
      result |-> extract_fields(text, document_type)] :
        text \in ServiceTexts, document_type \in DocumentType}

ExtractResultOf(text, document_type) ==
    (CHOOSE r \in ExtractResults :
         r.ocr_text = text /\ r.document_type = document_type).result

\* _extract_pattern_fields (Stage 1) over the texts the callers send,
\* computed once per text
PatternResults ==
    {[ocr_text |-> text, result |-> _extract_pattern_fields(text)] :
        text \in ServiceTexts}

PatternFieldsOf(text) ==
    (CHOOSE r \in PatternResults : r.ocr_text = text).result

\* the document-specific fields (Stage 3) over the same texts and every
\* document type, computed once per text and type
SpecificResults ==
    {[ocr_text |-> text, document_type |-> document_type,
      result |-> SpecificFields(text, document_type)] :
        text \in ServiceTexts, document_type \in DocumentType}

SpecificFieldsOf(text, document_type) ==
    (CHOOSE r \in SpecificResults :
         r.ocr_text = text /\ r.document_type = document_type).result

\* no extract_fields call under way
NoExtraction ==
    [stage |-> "idle", ocr_text |-> "", document_type |-> "generic",
     objects |-> <<>>, fields |-> <<>>, pattern |-> <<>>,
     refined_was |-> <<>>, returned |-> <<>>]

\* no upload request under way
NoUpload ==
    [stage |-> "idle", kind |-> "image", filename |-> "", file_size |-> 0,
     steps |-> <<>>, called |-> FALSE, text |-> "",
     classified |-> <<>>, extracted |-> <<>>, document_type |-> "generic",
     fields |-> <<>>, raised |-> [type |-> "None", status_code |-> 0],
     status_code |-> 0]

\* the factory before any call
NoFactory ==
    [cache |-> [provider |-> [name |-> "None", api_key |-> "", model_name |-> ""],
                serial |-> 0, made |-> 0],
     ops |-> 0, last |-> "None", attempts |-> 0, created |-> 0,
     failures |-> 0, returned |-> <<>>]

\* no extract_json call made
NoOutcome == [raised |-> "None", shape |-> "None", fields |-> <<>>]

NoCall ==
    [endpoint |-> "None", pc |-> "idle",
     ocr_text |-> "", fields |-> <<>>, hint |-> NoHint, document_type |-> "None",
     classification |-> NoResponse, llm_provider |-> NoInstance,
     status_code |-> 0, extracted |-> <<>>]

(***************************************************************************)
(* POST /classify                                                          *)
(***************************************************************************)
Init ==
    /\ pc = "idle"
    /\ request = NoRequest
    /\ response = NoResponse
    /\ settings = DefaultSettings
    /\ _instance = NoInstance
    /\ calls = [c \in Callers |-> NoCall]
    /\ luhn_input = ""
    /\ luhn_result = <<>>
    /\ llm_outcome = NoOutcome
    /\ llm_result = <<>>
    /\ extraction = NoExtraction
    /\ upload = NoUpload
    /\ factory = NoFactory

\* a ClassifyRequest arrives: non-empty text, optional fields, optional hint
ReceiveClassifyRequest ==
    /\ pc = "idle"
    /\ \E text \in Texts, fields \in FieldLists, hint \in Hints :
           request' = [ocr_text |-> text, fields |-> fields, hint |-> hint]
    /\ pc' = "classify"
    /\ UNCHANGED <<response, settings, _instance, calls, luhnVars, llmVars, extractVars, uploadVars, factoryVars>>

classify_document ==
    /\ pc = "classify"
    /\ response' = classify(request.ocr_text, request.fields, request.hint, "generic")
    /\ pc' = "responded"
    /\ UNCHANGED <<request, settings, _instance, calls, luhnVars, llmVars, extractVars, uploadVars, factoryVars>>

ReturnResponse ==
    /\ pc = "responded"
    /\ pc' = "idle"
    /\ request' = NoRequest
    /\ response' = NoResponse
    /\ UNCHANGED <<settings, _instance, calls, luhnVars, llmVars, extractVars, uploadVars, factoryVars>>

Next ==
    \/ ReceiveClassifyRequest
    \/ classify_document
    \/ ReturnResponse

Spec == Init /\ [][Next]_vars

(***************************************************************************)
(* The API as a whole: its state machine.                                   *)
(***************************************************************************)
ServiceInit ==
    /\ pc = "idle"
    /\ request = NoRequest
    /\ response = NoResponse
    /\ settings \in SettingsChoices
    /\ _instance = NoInstance
    /\ calls = [c \in Callers |-> NoCall]
    /\ luhn_input = ""
    /\ luhn_result = <<>>
    /\ llm_outcome = NoOutcome
    /\ llm_result = <<>>
    /\ extraction = NoExtraction
    /\ upload = NoUpload
    /\ factory = NoFactory

\* POST /classify arrives
ReceiveClassify ==
    /\ \E c \in Callers, text \in ServiceTexts, fields \in ServiceFieldLists,
          hint \in Hints :
           /\ calls[c].pc = "idle"
           /\ calls' = [calls EXCEPT ![c] =
                  [NoCall EXCEPT !.endpoint = "classify", !.pc = "classify",
                                 !.ocr_text = text, !.fields = fields,
                                 !.hint = hint]]
    /\ UNCHANGED <<pc, request, response, settings, _instance, luhnVars, llmVars, extractVars, uploadVars, factoryVars>>

\* POST /extract arrives
ReceiveExtract ==
    /\ \E c \in Callers, text \in ServiceTexts, document_type \in ServiceTypes :
           /\ calls[c].pc = "idle"
           /\ calls' = [calls EXCEPT ![c] =
                  [NoCall EXCEPT !.endpoint = "extract", !.pc = "construct",
                                 !.ocr_text = text,
                                 !.document_type = document_type]]
    /\ UNCHANGED <<pc, request, response, settings, _instance, luhnVars, llmVars, extractVars, uploadVars, factoryVars>>

\* POST /analyze arrives
ReceiveAnalyze ==
    /\ \E c \in Callers, text \in ServiceTexts, hint \in Hints :
           /\ calls[c].pc = "idle"
           /\ calls' = [calls EXCEPT ![c] =
                  [NoCall EXCEPT !.endpoint = "analyze", !.pc = "classify",
                                 !.ocr_text = text, !.hint = hint]]
    /\ UNCHANGED <<pc, request, response, settings, _instance, luhnVars, llmVars, extractVars, uploadVars, factoryVars>>

\* mutant: a classification that gives up (Generic at 0.30) once the
\* process-wide provider has been created
ClassifyCall_reading_instance ==
    /\ \E c \in Callers :
           /\ calls[c].pc = "classify"
           /\ calls' = [calls EXCEPT
                  ![c].classification =
                      IF _instance = NoInstance
                      THEN ClassifyResultOf(calls[c].ocr_text, calls[c].fields,
                                            calls[c].hint)
                      ELSE [ClassifyResultOf(calls[c].ocr_text, calls[c].fields,
                                             calls[c].hint)
                                EXCEPT !.document_type = "generic",
                                       !.confidence = 30],
                  ![c].pc = IF calls[c].endpoint = "analyze"
                            THEN "construct" ELSE "done",
                  ![c].status_code = IF calls[c].endpoint = "analyze"
                                     THEN 0 ELSE 200]
    /\ UNCHANGED <<pc, request, response, settings, _instance, luhnVars, llmVars, extractVars, uploadVars, factoryVars>>

\* ClassificationService.classify called by classify_document and by
\* analyze_document (Step 1)
ClassifyCall ==
    /\ \E c \in Callers :
           /\ calls[c].pc = "classify"
           /\ calls' = [calls EXCEPT
                  ![c].classification =
                      ClassifyResultOf(calls[c].ocr_text, calls[c].fields,
                                       calls[c].hint),
                  ![c].pc = IF calls[c].endpoint = "analyze"
                            THEN "construct" ELSE "done",
                  ![c].status_code = IF calls[c].endpoint = "analyze"
                                     THEN 0 ELSE 200]
    /\ UNCHANGED <<pc, request, response, settings, _instance, luhnVars, llmVars, extractVars, uploadVars, factoryVars>>

\* extraction_service = ExtractionService(): the constructor takes the
\* provider from the factory; what it raises is caught by the handler and
\* answered with status 500
ConstructExtractionService ==
    /\ \E c \in Callers :
           /\ calls[c].pc = "construct"
           /\ LET got == get_provider(_instance, settings)
              IN  IF got.raised # "None"
                  THEN /\ calls' = [calls EXCEPT ![c].pc = "done",
                                                 ![c].status_code = 500]
                       /\ UNCHANGED _instance
                  ELSE /\ _instance' = got.provider
                       /\ calls' = [calls EXCEPT ![c].pc = "extract",
                                                 ![c].llm_provider = got.provider]
    /\ UNCHANGED <<pc, request, response, settings, luhnVars, llmVars, extractVars, uploadVars, factoryVars>>

\* mutant: an analysis that extracts with the caller's hint when there is one
ExtractionType_from_hint(call) ==
    IF call.endpoint = "analyze"
    THEN IF call.hint # NoHint
         THEN call.hint
         ELSE call.classification.document_type
    ELSE call.document_type

\* the document type a handler hands to extract_fields: the request's for
\* /extract, the classifier's for /analyze
ExtractionType(call) ==
    IF call.endpoint = "analyze"
    THEN call.classification.document_type
    ELSE call.document_type

\* mutant: an extraction that reads the text of whichever request is in
\* flight
ExtractCall_sharing_text ==
    /\ \E c \in Callers, d \in Callers :
           /\ calls[c].pc = "extract"
           /\ calls[d].pc # "idle"
           /\ calls' = [calls EXCEPT
                  ![c].extracted =
                      ExtractResultOf(calls[d].ocr_text, ExtractionType(calls[c])),
                  ![c].pc = "done",
                  ![c].status_code = 200]
    /\ UNCHANGED <<pc, request, response, settings, _instance, luhnVars, llmVars, extractVars, uploadVars, factoryVars>>

\* await extraction_service.extract_fields(...)
ExtractCall ==
    /\ \E c \in Callers :
           /\ calls[c].pc = "extract"
           /\ calls' = [calls EXCEPT
                  ![c].extracted =
                      ExtractResultOf(calls[c].ocr_text, ExtractionType(calls[c])),
                  ![c].pc = "done",
                  ![c].status_code = 200]
    /\ UNCHANGED <<pc, request, response, settings, _instance, luhnVars, llmVars, extractVars, uploadVars, factoryVars>>

\* the response (or the HTTPException) goes out
Respond ==
    /\ \E c \in Callers :
           /\ calls[c].pc = "done"
           /\ calls' = [calls EXCEPT ![c] = NoCall]
    /\ UNCHANGED <<pc, request, response, settings, _instance, luhnVars, llmVars, extractVars, uploadVars, factoryVars>>

ServiceNext ==
    \/ ReceiveClassify
    \/ ReceiveExtract
    \/ ReceiveAnalyze
    \/ ClassifyCall
    \/ ConstructExtractionService
    \/ ExtractCall
    \/ Respond

ServiceSpec == ServiceInit /\ [][ServiceNext]_vars

(***************************************************************************)
(* luhn_check on its own: card numbers of 12 to 20 digits around the two   *)
(* length limits, plain and written with separators.                       *)
(***************************************************************************)
MaxSuffix == 3

RECURSIVE DigitSuffixes(_)
\* the digit strings of length 0..n
DigitSuffixes(n) ==
    IF n = 0 THEN {""}
    ELSE DigitSuffixes(n - 1)
             \cup {s \o d : s \in {t \in DigitSuffixes(n - 1) : Len(t) = n - 1},
                            d \in CharsOf(DigitChars)}

\* 12 digits (of Luhn sum 0 modulo 10) and 17 digits, to be completed to
\* 12..15 and 17..20 digits
ShortPrefix == "453201511285"
LongPrefix == "45320151128303661"

CardNumbers ==
    {ShortPrefix \o s : s \in DigitSuffixes(MaxSuffix)}
        \cup {LongPrefix \o s : s \in DigitSuffixes(MaxSuffix)}
        \cup {"", "no digits", "4532 0151 1283 0366", "4532-0151-1283-0366",
              "card 4532015112830366", "4532 1234 5678 9012",
              "4532015112830366", "4532123456789012"}

LuhnInit ==
    /\ pc = "idle"
    /\ request = NoRequest
    /\ response = NoResponse
    /\ settings = DefaultSettings
    /\ _instance = NoInstance
    /\ calls = [c \in Callers |-> NoCall]
    /\ luhn_input \in CardNumbers
    /\ luhn_result = <<>>
    /\ llm_outcome = NoOutcome
    /\ llm_result = <<>>
    /\ extraction = NoExtraction
    /\ upload = NoUpload
    /\ factory = NoFactory

\* luhn_check is called on the card number and returns
luhn_check_call ==
    /\ luhn_result = <<>>
    /\ luhn_result' = <<luhn_check(luhn_input)>>
    /\ UNCHANGED <<pc, request, response, settings, _instance, calls, luhn_input, llmVars, extractVars, uploadVars, factoryVars>>

LuhnNext == luhn_check_call

LuhnSpec == LuhnInit /\ [][LuhnNext]_vars

(***************************************************************************)
(* _extract_with_llm on its own, over the outcomes of extract_json.        *)
(***************************************************************************)
MaxEntries == 2

LlmEntries ==
    {[key |-> "merchant", value |-> "CVS", confidence |-> 900],
     [key |-> "total", value |-> "$12.99"],
     [key |-> "date", value |-> "12/12/2025", confidence |-> 0],
     [key |-> "store", value |-> "12", confidence |-> 1000],
     [value |-> "CVS", confidence |-> 900],
     [key |-> "merchant", confidence |-> 900],
     [key |-> "merchant", value |-> "CVS", confidence |-> 1200],
     [key |-> "merchant", value |-> "CVS", confidence |-> -100]}

LlmEntryLists ==
    UNION {[1..n -> LlmEntries] : n \in 0..MaxEntries}

ProviderOutcomes ==
    {[raised |-> e, shape |-> "None", fields |-> <<>>] :
        e \in {"APIError", "JSONDecodeError"}}
    \cup {[raised |-> "None", shape |-> s, fields |-> <<>>] :
            s \in {"not_a_dict", "dict_without_fields", "fields_null"}}
    \cup {[raised |-> "None", shape |-> "dict_with_fields", fields |-> entries] :
            entries \in LlmEntryLists}

LlmInit ==
    /\ pc = "idle"
    /\ request = NoRequest
    /\ response = NoResponse
    /\ settings = TestSettings
    /\ _instance = NoInstance
    /\ calls = [c \in Callers |-> NoCall]
    /\ luhn_input = ""
    /\ luhn_result = <<>>
    /\ llm_outcome \in ProviderOutcomes
    /\ llm_result = <<>>
    /\ extraction = NoExtraction
    /\ upload = NoUpload
    /\ factory = NoFactory

\* await self._extract_with_llm(text, document_type)
_extract_with_llm_call ==
    /\ llm_result = <<>>
    /\ llm_result' = <<_extract_with_llm(llm_outcome)>>
    /\ UNCHANGED <<pc, request, response, settings, _instance, calls, luhnVars,
                   llm_outcome, extractVars, uploadVars, factoryVars>>

LlmNext == _extract_with_llm_call

LlmSpec == LlmInit /\ [][LlmNext]_vars

(***************************************************************************)
(* extract_fields on its own, one stage at a time, for every document      *)
(* type.  pattern and refined_was record what the first two stages         *)
(* produced, as contents, at the time they produced it.                    *)
(***************************************************************************)
StagesInit ==
    /\ pc = "idle"
    /\ request = NoRequest
    /\ response = NoResponse
    /\ settings = TestSettings
    /\ _instance = NoInstance
    /\ calls = [c \in Callers |-> NoCall]
    /\ luhn_input = ""
    /\ luhn_result = <<>>
    /\ llm_outcome = NoOutcome
    /\ llm_result = <<>>
    /\ \E text \in ServiceTexts, document_type \in DocumentType :
           extraction = [NoExtraction EXCEPT !.stage = "called",
                                             !.ocr_text = text,
                                             !.document_type = document_type]
    /\ upload = NoUpload
    /\ factory = NoFactory

\* the call once Stage 1 made the fields `made`
AfterPatterns(made) ==
    [extraction EXCEPT !.stage = "patterns",
                       !.objects = made,
                       !.fields = [k \in 1..Len(made) |-> k],
                       !.pattern = made]

\* fields = self._extract_pattern_fields(ocr_text)
PatternStage ==
    /\ extraction.stage = "called"
    /\ extraction' = AfterPatterns(PatternFieldsOf(extraction.ocr_text))
    /\ UNCHANGED <<pc, request, response, settings, _instance, calls,
                   luhnVars, llmVars, uploadVars, factoryVars>>

\* fields = self._refine_fields_by_type(fields, document_type, ocr_text)
RefineStage ==
    /\ extraction.stage = "patterns"
    /\ LET done == RefineObjects(extraction.objects, extraction.fields,
                                 extraction.document_type)
       IN  extraction' = [extraction EXCEPT
               !.stage = "refined",
               !.objects = done.objects,
               !.fields = done.refined,
               !.refined_was = Contents(done.objects, done.refined)]
    /\ UNCHANGED <<pc, request, response, settings, _instance, calls,
                   luhnVars, llmVars, uploadVars, factoryVars>>

\* the call once the document-specific stage made the fields `made`
AfterSpecific(made) ==
    LET objects == extraction.objects \o made
        fields == extraction.fields \o
                  [k \in 1..Len(made) |-> Len(extraction.objects) + k]
    IN  [extraction EXCEPT !.stage = "returned",
                           !.objects = objects,
                           !.fields = fields,
                           !.returned = Contents(objects, fields)]

\* fields.extend(...) of the document-specific fields, and return fields
SpecificStage ==
    /\ extraction.stage = "refined"
    /\ extraction' = AfterSpecific(SpecificFieldsOf(extraction.ocr_text,
                                                    extraction.document_type))
    /\ UNCHANGED <<pc, request, response, settings, _instance, calls,
                   luhnVars, llmVars, uploadVars, factoryVars>>

StagesNext == PatternStage \/ RefineStage \/ SpecificStage

StagesSpec == StagesInit /\ [][StagesNext]_vars

(***************************************************************************)
(* The upload endpoints, POST /upload/image and POST /upload/audio, one    *)
(* step at a time.  The file, the settings and what the OpenAI call        *)
(* returns are inputs.  steps is the list of the steps entered so far;     *)
(* raised is the exception travelling to the handlers of the endpoint.     *)
(***************************************************************************)
RECURSIVE LastDot(_, _)
\* the position of the last "." of s at or before i, 0 when there is none
LastDot(s, i) ==
    IF i = 0 THEN 0
    ELSE IF SubSeq(s, i, i) = "." THEN i
    ELSE LastDot(s, i - 1)

\* Path(filename).suffix.lower(), for a filename without directories
SuffixLower(filename) ==
    LET dot == LastDot(filename, Len(filename))
    IN  IF dot <= 1 \/ dot = Len(filename) THEN ""
        ELSE Lower(SubSeq(filename, dot, Len(filename)))

RECURSIVE LeftStrip(_)
LeftStrip(s) ==
    IF Len(s) > 0 /\ IsSpace(SubSeq(s, 1, 1))
    THEN LeftStrip(SubSeq(s, 2, Len(s))) ELSE s

RECURSIVE RightStrip(_)
RightStrip(s) ==
    IF Len(s) > 0 /\ IsSpace(SubSeq(s, Len(s), Len(s)))
    THEN RightStrip(SubSeq(s, 1, Len(s) - 1)) ELSE s

\* str.strip()
Strip(s) == RightStrip(LeftStrip(s))

\* SUPPORTED_FORMATS and MAX_FILE_SIZE of OCRService and TranscriptionService
SUPPORTED_FORMATS(kind) ==
    IF kind = "image" THEN {".png", ".jpg", ".jpeg", ".webp", ".gif"}
    ELSE {".wav", ".mp3", ".m4a", ".ogg", ".flac", ".webm", ".mp4"}

MAX_FILE_SIZE(kind) ==
    IF kind = "image" THEN 10 * 1024 * 1024 ELSE 25 * 1024 * 1024

validate_file_format(kind, filename) ==
    SuffixLower(filename) \in SUPPORTED_FORMATS(kind)

validate_file_size(kind, file_size) == file_size <= MAX_FILE_SIZE(kind)

NoException == [type |-> "None", status_code |-> 0]
HTTPException(status_code) == [type |-> "HTTPException", status_code |-> status_code]
ValueError == [type |-> "ValueError", status_code |-> 0]
Exception == [type |-> "Exception", status_code |-> 0]

\* extract_text_from_bytes / transcribe_from_bytes: the checks of the
\* service, then the OpenAI call, which fails or returns a content
RecogniseFromBytes(kind, filename, file_size, api_outcome) ==
    IF SuffixLower(filename) \notin SUPPORTED_FORMATS(kind)
    THEN [raised |-> ValueError, text |-> ""]
    ELSE IF file_size > MAX_FILE_SIZE(kind)
    THEN [raised |-> ValueError, text |-> ""]
    ELSE IF api_outcome.failed
    THEN [raised |-> Exception, text |-> ""]
    ELSE [raised |-> NoException, text |-> Strip(api_outcome.content)]

\* mutant: `except Exception` ahead of `except HTTPException`
UploadHandlers_rewrapping(raised) == 500

\* `except HTTPException: raise`, then `except Exception` raising a 500
UploadHandlers(raised) ==
    IF raised.type = "HTTPException" THEN raised.status_code ELSE 500

UploadKinds == {"image", "audio"}

UploadFilenames ==
    {"", "scan.png", "SCAN.JPG", "scan.pdf", "scan", ".png", "memo.mp3",
     "voice.m4a"}

UploadSizes ==
    {2048, 10 * 1024 * 1024, 10 * 1024 * 1024 + 1,
     25 * 1024 * 1024, 25 * 1024 * 1024 + 1}

\* the settings of the upload runs: no key at all, the OpenAI key alone with
\* either OpenAI or Anthropic as the LLM provider
UploadSettings ==
    SettingsChoices \cup {[TestSettings EXCEPT !.llm_provider = "anthropic"]}

\* what the OpenAI call does: it fails, or returns a content (None reads "")
ApiOutcomes ==
    {[failed |-> TRUE, content |-> ""]}
    \cup {[failed |-> FALSE, content |-> content] :
            content \in {"", " \n ", "\n" \o UtilityBill \o " \n", TwoCodes}}

UploadOrder ==
    <<"filename check", "format check", "size check", "recognise",
      "empty-text check", "classify", "extract_fields">>

UploadInit ==
    /\ pc = "idle"
    /\ request = NoRequest
    /\ response = NoResponse
    /\ settings \in UploadSettings
    /\ _instance = NoInstance
    /\ calls = [c \in Callers |-> NoCall]
    /\ luhn_input = ""
    /\ luhn_result = <<>>
    /\ llm_outcome = NoOutcome
    /\ llm_result = <<>>
    /\ extraction = NoExtraction
    /\ \E kind \in UploadKinds, filename \in UploadFilenames,
          file_size \in UploadSizes :
           upload = [NoUpload EXCEPT !.stage = "filename", !.kind = kind,
                                     !.filename = filename,
                                     !.file_size = file_size]
    /\ factory = NoFactory

\* the step `name` is entered and ends by raising, or by going on to `next`
StepTo(name, raised, next) ==
    [upload EXCEPT !.steps = Append(@, name),
                   !.raised = raised,
                   !.stage = IF raised = NoException THEN next ELSE "raised"]

\* if not file.filename: raise HTTPException(400)
CheckFilename ==
    /\ upload.stage = "filename"
    /\ upload' = StepTo("filename check",
                        IF upload.filename = "" THEN HTTPException(400)
                        ELSE NoException,
                        "format")
    /\ UNCHANGED <<pc, request, response, settings, _instance, calls,
                   luhnVars, llmVars, extractVars, factoryVars>>

\* if not validate_file_format(file.filename): raise HTTPException(400)
CheckFormat ==
    /\ upload.stage = "format"
    /\ upload' = StepTo("format check",
                        IF ~validate_file_format(upload.kind, upload.filename)
                        THEN HTTPException(400) ELSE NoException,
                        "size")
    /\ UNCHANGED <<pc, request, response, settings, _instance, calls,
                   luhnVars, llmVars, extractVars, factoryVars>>

\* if not validate_file_size(file_size): raise HTTPException(413)
CheckSize ==
    /\ upload.stage = "size"
    /\ upload' = StepTo("size check",
                        IF ~validate_file_size(upload.kind, upload.file_size)
                        THEN HTTPException(413) ELSE NoException,
                        "recognise")
    /\ UNCHANGED <<pc, request, response, settings, _instance, calls,
                   luhnVars, llmVars, extractVars, factoryVars>>

\* OCRService() / TranscriptionService(), then the call under its own try:
\* ValueError becomes HTTPException(400), any other exception
\* HTTPException(500)
Recognise ==
    /\ upload.stage = "recognise"
    /\ \E api_outcome \in ApiOutcomes :
         LET got == RecogniseFromBytes(upload.kind, upload.filename,
                                       upload.file_size, api_outcome)
             raised == IF settings.openai_api_key = "" THEN ValueError
                       ELSE IF got.raised = ValueError THEN HTTPException(400)
                       ELSE IF got.raised = Exception THEN HTTPException(500)
                       ELSE NoException
         IN  upload' = [StepTo("recognise", raised, "text") EXCEPT
                            !.called = settings.openai_api_key # "",
                            !.text = IF raised = NoException THEN got.text
                                     ELSE ""]
    /\ UNCHANGED <<pc, request, response, settings, _instance, calls,
                   luhnVars, llmVars, extractVars, factoryVars>>

\* if not extracted_text: raise HTTPException(422)
CheckText ==
    /\ upload.stage = "text"
    /\ upload' = StepTo("empty-text check",
                        IF upload.text = "" THEN HTTPException(422)
                        ELSE NoException,
                        "classify")
    /\ UNCHANGED <<pc, request, response, settings, _instance, calls,
                   luhnVars, llmVars, extractVars, factoryVars>>

\* ClassificationService.classify(ocr_text=extracted_text)
UploadClassify ==
    /\ upload.stage = "classify"
    /\ upload' = [StepTo("classify", NoException, "extract") EXCEPT
                      !.classified = Append(@, upload.text),
                      !.document_type =
                          ClassifyResultOf(upload.text, <<>>, NoHint).document_type]
    /\ UNCHANGED <<pc, request, response, settings, _instance, calls,
                   luhnVars, llmVars, extractVars, factoryVars>>

\* ExtractionService(), whose get_provider may raise ValueError, then
\* extract_fields and the response
UploadExtract ==
    /\ upload.stage = "extract"
    /\ LET got == get_provider(_instance, settings)
       IN  IF got.raised # "None"
           THEN /\ upload' = [upload EXCEPT !.raised = ValueError,
                                            !.stage = "raised"]
                /\ UNCHANGED _instance
           ELSE /\ _instance' = got.provider
                /\ upload' = [StepTo("extract_fields", NoException, "responded")
                              EXCEPT !.extracted = Append(@, upload.text),
                                     !.status_code = 200,
                                     !.fields = ExtractResultOf(
                                         upload.text, upload.document_type)]
    /\ UNCHANGED <<pc, request, response, settings, calls,
                   luhnVars, llmVars, extractVars, factoryVars>>

\* the except clauses of the endpoint
UploadRaise ==
    /\ upload.stage = "raised"
    /\ upload' = [upload EXCEPT !.stage = "responded",
                                !.status_code = UploadHandlers(upload.raised)]
    /\ UNCHANGED <<pc, request, response, settings, _instance, calls,
                   luhnVars, llmVars, extractVars, factoryVars>>

UploadNext ==
    \/ CheckFilename
    \/ CheckFormat
    \/ CheckSize
    \/ Recognise
    \/ CheckText
    \/ UploadClassify
    \/ UploadExtract
    \/ UploadRaise

UploadSpec == UploadInit /\ [][UploadNext]_vars

(***************************************************************************)
(* LLMProviderFactory on its own: get_provider, reset_provider and         *)
(* ExtractionService() in any order.  Provider objects are told apart by   *)
(* a serial number, given in order of construction; the cache is the       *)
(* provider in _instance together with its serial number (0 for None).     *)
(* The other fields of factory record what happened since the last reset.  *)
(***************************************************************************)
MaxFactoryCalls == 6

\* mutant: get_provider without the `is None` test
GetProviderObject_always_creating(cache, s) ==
    LET made == create_provider(s)
    IN  IF made.raised # "None"
        THEN [raised |-> made.raised, cache |-> cache, returned |-> 0]
        ELSE [raised |-> "None",
              cache |-> [provider |-> made.provider, serial |-> cache.made + 1,
                         made |-> cache.made + 1],
              returned |-> cache.made + 1]

\* get_provider on objects: the exception raised, the cache afterwards and
\* the serial number of the provider returned
GetProviderObject(cache, s) ==
    IF cache.provider = NoInstance
    THEN LET made == create_provider(s)
         IN  IF made.raised # "None"
             THEN [raised |-> made.raised, cache |-> cache, returned |-> 0]
             ELSE [raised |-> "None",
                   cache |-> [provider |-> made.provider,
                              serial |-> cache.made + 1,
                              made |-> cache.made + 1],
                   returned |-> cache.made + 1]
    ELSE [raised |-> "None", cache |-> cache, returned |-> cache.serial]

FactoryInit ==
    /\ pc = "idle"
    /\ request = NoRequest
    /\ response = NoResponse
    /\ settings \in UploadSettings
    /\ _instance = NoInstance
    /\ calls = [c \in Callers |-> NoCall]
    /\ luhn_input = ""
    /\ luhn_result = <<>>
    /\ llm_outcome = NoOutcome
    /\ llm_result = <<>>
    /\ extraction = NoExtraction
    /\ upload = NoUpload
    /\ factory = NoFactory

\* LLMProviderFactory.get_provider(), called directly or by
\* ExtractionService.__init__
GetProviderBy(caller) ==
    /\ factory.ops < MaxFactoryCalls
    /\ LET got == GetProviderObject(factory.cache, settings)
           creating == factory.cache.provider = NoInstance
       IN  /\ _instance' = got.cache.provider
           /\ factory' =
                 [factory EXCEPT
                     !.cache = got.cache,
                     !.ops = @ + 1,
                     !.last = IF got.raised # "None" THEN got.raised
                              ELSE caller,
                     !.attempts = IF got.cache.made > factory.cache.made
                                     \/ got.raised # "None"
                                  THEN @ + 1 ELSE @,
                     !.created = @ + (got.cache.made - factory.cache.made),
                     !.failures = IF got.raised # "None" THEN @ + 1 ELSE @,
                     !.returned = IF got.raised # "None" THEN @
                                  ELSE Append(@, got.returned)]
    /\ UNCHANGED <<pc, request, response, settings, calls,
                   luhnVars, llmVars, extractVars, uploadVars>>

get_provider_call == GetProviderBy("get_provider")

\* ExtractionService(): self.llm_provider = LLMProviderFactory.get_provider()
ExtractionService_init == GetProviderBy("ExtractionService")

\* LLMProviderFactory.reset_provider(): cls._instance = None
reset_provider_call ==
    /\ factory.ops < MaxFactoryCalls
    /\ _instance' = NoInstance
    /\ factory' = [factory EXCEPT
                      !.cache = [@ EXCEPT !.provider = NoInstance, !.serial = 0],
                      !.ops = @ + 1,
                      !.last = "reset_provider",
                      !.attempts = 0,
                      !.created = 0,
                      !.failures = 0,
                      !.returned = <<>>]
    /\ UNCHANGED <<pc, request, response, settings, calls,
                   luhnVars, llmVars, extractVars, uploadVars>>

FactoryNext ==
    \/ get_provider_call
    \/ ExtractionService_init
    \/ reset_provider_call

FactorySpec == FactoryInit /\ [][FactoryNext]_vars

(***************************************************************************)
(* Properties of the classification engine.                                *)
(***************************************************************************)
\* the response to the request at hand has been computed
Responded == pc = "responded"

\* the haystack of the request at hand
RequestHaystack == Haystack(request.ocr_text, request.fields)

\* how many of the five promotional signal categories a haystack holds
PromotionalCategoryCount(text) ==
    CountTrue(<<AnyIn(incentive_verbs, text), AnyIn(conditionals, text),
                AnyIn(promo_terms, text), AnyIn(urgency, text), AnyIn(ctas, text)>>)

PriorityOrder ==
    <<"promotional", "insuranceCard", "creditCard", "receipt", "billStatement", "letter">>

\* the SignalReport flag of a category
Fired(signals, type) ==
    CASE type = "promotional" -> signals.promotional
      [] type = "insuranceCard" -> signals.insurance_card
      [] type = "creditCard" -> signals.credit_card
      [] type = "receipt" -> signals.receipt
      [] type = "billStatement" -> signals.bill
      [] type = "letter" -> signals.letter

HasTransactionIdPattern(text) ==
    \/ Contains(text, "receipt #")
    \/ Contains(text, "order #")
    \/ Contains(text, "transaction #")
    \/ Contains(text, "confirmation #")

\* a payment-method signal: card brand, card payment indicator or cash indicator
HasPaymentMethodSignal(text) ==
    \/ AnyIn(card_types, text)
    \/ AnyIn(payment_indicators, text)
    \/ AnyIn(cash_indicators, text)

\* C3 as stated -- every text with a transaction-ID pattern and a
\* payment-method signal for which the promotional detector does not fire
\* classifies as Receipt with confidence at least 0.95.
C3_Original ==
    /\ Responded
    /\ HasTransactionIdPattern(RequestHaystack)
    /\ HasPaymentMethodSignal(RequestHaystack)
    /\ ~response.signals.promotional
    => /\ response.document_type = "receipt"
       /\ response.confidence >= 95

\* C3 amended -- every text with a transaction-ID pattern and a payment-method
\* signal for which none of the promotional, insurance-card and credit-card
\* detectors fires classifies as Receipt with confidence at least 0.95.
C3_StrongReceipt ==
    /\ Responded
    /\ HasTransactionIdPattern(RequestHaystack)
    /\ HasPaymentMethodSignal(RequestHaystack)
    /\ ~response.signals.promotional
    /\ ~response.signals.insurance_card
    /\ ~response.signals.credit_card
    => /\ response.document_type = "receipt"
       /\ response.confidence >= 95

\* C3 witness: an "order #" text paid by card, classified Receipt at 0.95
C3_Witness ==
    /\ Responded
    /\ Contains(RequestHaystack, "order #")
    /\ HasPaymentMethodSignal(RequestHaystack)
    /\ response.document_type = "receipt"
    /\ response.confidence = 95

\* the insurance anti-pattern phrases
HasInsuranceAntiPattern(text) ==
    \/ Contains(text, "this is not an insurance card")
    \/ Contains(text, "summary of benefits")
    \/ Contains(text, "explanation of benefits")
    \/ Contains(text, "eob")
    \/ Contains(text, "claim statement")
    \/ Contains(text, "billing statement")

\* C4 as stated -- every text that contains "rx bin" and none of the
\* insurance anti-pattern phrases classifies as InsuranceCard with confidence
\* 0.95, whatever other signals of any detector are present.
C4_Original ==
    /\ Responded
    /\ Contains(RequestHaystack, "rx bin")
    /\ ~HasInsuranceAntiPattern(RequestHaystack)
    => /\ response.document_type = "insuranceCard"
       /\ response.confidence = 95

\* C4 amended -- every text that contains "rx bin" and none of the insurance
\* anti-pattern phrases, and for which the promotional detector does not
\* fire, classifies as InsuranceCard with confidence 0.95, whatever the
\* insurance signal count and the other detectors' signals are.
C4_RxBinInstantMatch ==
    /\ Responded
    /\ Contains(RequestHaystack, "rx bin")
    /\ ~HasInsuranceAntiPattern(RequestHaystack)
    /\ ~response.signals.promotional
    => /\ response.document_type = "insuranceCard"
       /\ response.confidence = 95

\* C4 witness: "rx bin" as the only insurance signal category, next to a
\* fired credit-card detector, classified InsuranceCard at 0.95
C4_Witness ==
    /\ Responded
    /\ Contains(RequestHaystack, "rx bin")
    /\ response.signals.insurance_card
    /\ response.signals.details.insurance_card.signal_count = 1
    /\ response.signals.credit_card
    /\ response.document_type = "insuranceCard"
    /\ response.confidence = 95

RECURSIVE ReferenceLuhnSum(_, _)
\* the Luhn sum of the last k digits of a digit string: counted from the
\* right, every second digit contributes the digit sum of its double
ReferenceLuhnSum(digits, k) ==
    IF k = 0 THEN 0
    ELSE LET d == DigitValue(CharAt(digits, Len(digits) - k + 1))
         IN  (IF k % 2 = 0 THEN ((2 * d) \div 10) + ((2 * d) % 10) ELSE d)
                 + ReferenceLuhnSum(digits, k - 1)

\* text[i..j] is a continuous run of 13 to 19 digits
ContinuousSequence(text, i, j) ==
    /\ j - i + 1 >= 13 /\ j - i + 1 <= 19
    /\ DigitsAt(text, i, j - i + 1)

\* text[i..j] is grouped 4-4-4-(3..7), a blank or dash optional between groups
GroupedSequence(text, i, j) ==
    \E s1, s2, s3 \in {0, 1} :
        LET g2 == i + 4 + s1
            g3 == g2 + 4 + s2
            g4 == g3 + 4 + s3
            sep(p) == IsSpace(CharAt(text, p)) \/ CharAt(text, p) = "-"
        IN  /\ DigitsAt(text, i, 4) /\ (s1 = 1 => sep(i + 4))
            /\ DigitsAt(text, g2, 4) /\ (s2 = 1 => sep(g2 + 4))
            /\ DigitsAt(text, g3, 4) /\ (s3 = 1 => sep(g3 + 4))
            /\ j - g4 + 1 >= 3 /\ j - g4 + 1 <= 7
            /\ DigitsAt(text, g4, j - g4 + 1)

\* the text holds a digit sequence of 13 to 19 digits, continuous or grouped,
\* not part of a longer run of digits, that passes the Luhn checksum
HasLuhnValidSequence(text) ==
    \E i \in 1..Len(text) :
        /\ IsDigit(CharAt(text, i)) /\ ~IsDigit(CharAt(text, i - 1))
        /\ \E j \in (i + 12)..Len(text) :
              LET digits == StripNonDigits(SubSeq(text, i, j))
              IN  /\ j <= i + 21
                  /\ ~IsDigit(CharAt(text, j + 1))
                  /\ ContinuousSequence(text, i, j) \/ GroupedSequence(text, i, j)
                  /\ ReferenceLuhnSum(digits, Len(digits)) % 10 = 0

\* strong context: issuer brand name, MM/YY(YY) expiry, a card/credit/debit
\* field key, or a card keyword
HasStrongCardContext(text, fields) ==
    \/ AnyIn(issuer_names, text)
    \/ HasExpiryPattern(text)
    \/ \E k \in 1..Len(fields) :
          LET key == Lower(fields[k].key)
          IN  \/ Contains(key, "card") /\ (Contains(key, "number") \/ Contains(key, "pan"))
              \/ Contains(key, "credit")
              \/ Contains(key, "debit")
    \/ AnyIn(card_type_keywords, text)

HasNonPaymentCardTerm(text) ==
    \/ Contains(text, "gift card")
    \/ Contains(text, "member card")
    \/ Contains(text, "membership card")
    \/ Contains(text, "loyalty card")

\* C6 -- A text with a non-payment-card term (gift, member, membership or
\* loyalty card) and no issuer brand name never classifies as CreditCard, even
\* with a Luhn-valid number and other strong context.
C6_NonPaymentCardRejected ==
    /\ Responded
    /\ HasNonPaymentCardTerm(RequestHaystack)
    /\ ~AnyIn(issuer_names, RequestHaystack)
    => /\ ~response.signals.credit_card
       /\ response.document_type # "creditCard"

\* C6 witness: a gift card that carries a Luhn-valid number and a card-number
\* field key, is not promotional, and is not classified CreditCard
C6_Witness ==
    /\ Responded
    /\ Contains(RequestHaystack, "gift card")
    /\ ~AnyIn(issuer_names, RequestHaystack)
    /\ HasLuhnValidSequence(RequestHaystack)
    /\ HasStrongCardContext(RequestHaystack, request.fields)
    /\ ~response.signals.promotional
    /\ response.document_type # "creditCard"

\* C7 -- A receipt with a promotional footer still classifies as Receipt: the
\* text with "Receipt #456", "VISA ****1234" and the footer "SAVE $5 ON YOUR
\* NEXT VISIT / Use code: SAVE5" yields document type Receipt.
C7_ReceiptWithPromoFooter ==
    /\ Responded
    /\ request.ocr_text = ReceiptWithPromoFooter
    /\ request.fields = <<>>
    => response.document_type = "receipt"

\* C8 -- The card face showing VISA, "4532 1234 5678 9012" and
\* "VALID THRU: 12/27" classifies as CreditCard.
C8_VisaCardFace ==
    /\ Responded
    /\ request.ocr_text = VisaCreditCard
    /\ request.fields = <<>>
    => response.document_type = "creditCard"

\* C9 -- The gas-station receipt (dollar total, "Approval Code" line, card
\* brand name, pump number, no transaction id, no merchant-context term)
\* classifies as Receipt with confidence at least 0.85.
C9_GasStationReceipt ==
    /\ Responded
    /\ request.ocr_text = GasStationReceipt
    /\ request.fields = <<>>
    => /\ response.document_type = "receipt"
       /\ response.confidence >= 85

\* C10 -- The retail coupon ("SAVE 20% ON YOUR NEXT PURCHASE", "Use code:
\* SAVE20", "Valid through December 31, 2025") classifies as Promotional.
C10_RetailCoupon ==
    /\ Responded
    /\ request.ocr_text = RetailCoupon
    /\ request.fields = <<>>
    => response.document_type = "promotional"

\* C11 -- Insurance anti-pattern veto: whenever the haystack contains an
\* anti-pattern phrase the insurance-card detector rejects and classify never
\* returns InsuranceCard, whatever member-id, insurer, plan-type or rx-bin
\* signals the same text has.
C11_AntiPatternVeto ==
    Responded /\ HasInsuranceAntiPattern(RequestHaystack)
        => /\ ~response.signals.insurance_card
           /\ response.document_type # "insuranceCard"

\* C11 witness: "eob" next to the RX BIN instant match, not an insurance card
C11_Witness ==
    /\ Responded
    /\ Contains(RequestHaystack, "eob")
    /\ Contains(RequestHaystack, "rx bin")
    /\ ~response.signals.promotional
    /\ ~response.signals.insurance_card
    /\ response.document_type # "insuranceCard"

\* C12 -- Promotional veto on the dependent detectors: in every signal report
\* classify returns, promotional = true implies receipt = false and
\* letter = false.
C12_PromotionalVeto ==
    Responded /\ response.signals.promotional
        => ~response.signals.receipt /\ ~response.signals.letter

\* C12 witness: a promotional text in letter format (salutation and closing)
\* whose letter flag is false
C12_Witness ==
    /\ Responded
    /\ response.signals.promotional
    /\ Contains(RequestHaystack, "dear ")
    /\ Contains(RequestHaystack, "sincerely")
    /\ ~response.signals.letter
    /\ ~response.signals.receipt

\* none of the six detector flags of a signal report is set
NoDetectorFired(signals) ==
    /\ ~signals.promotional
    /\ ~signals.insurance_card
    /\ ~signals.credit_card
    /\ ~signals.receipt
    /\ ~signals.bill
    /\ ~signals.letter

\* C13 -- Classification is total: every request gets exactly one of the
\* seven document types; with the default type Generic it is Generic exactly
\* when none of the six detectors fired, and then the confidence is 0.30.
C13_ClassificationTotal ==
    Responded
        => /\ response.document_type \in DocumentType
           /\ response.document_type = "generic"
                  <=> NoDetectorFired(response.signals)
           /\ response.document_type = "generic" => response.confidence = 30

\* C13 witness: a request with fields on which no detector fires, answered
\* Generic at 0.30
C13_Witness ==
    /\ Responded
    /\ request.fields # <<>>
    /\ NoDetectorFired(response.signals)
    /\ response.document_type = "generic"
    /\ response.confidence = 30

(***************************************************************************)
(* Properties of the API as a whole.                                       *)
(***************************************************************************)
\* caller c's request has been classified (by /classify or by /analyze)
Classified(c) == calls[c].classification # NoResponse

\* caller c's request has been answered with extracted fields
Extracted(c) ==
    /\ calls[c].endpoint \in {"extract", "analyze"}
    /\ calls[c].pc = "done"
    /\ calls[c].status_code = 200

ServedAlone(call) ==
    LET classification ==
            IF call.endpoint \in {"classify", "analyze"}
            THEN ClassifyResultOf(call.ocr_text, call.fields, call.hint)
            ELSE NoResponse
        constructed == create_provider(settings).raised = "None"
        extracts == call.endpoint \in {"extract", "analyze"}
    IN  [status_code |-> IF extracts /\ ~constructed THEN 500 ELSE 200,
         classification |-> classification,
         extracted |->
             IF extracts /\ constructed
             THEN ExtractResultOf(call.ocr_text,
                      IF call.endpoint = "analyze"
                      THEN classification.document_type
                      ELSE call.document_type)
             ELSE <<>>]

\* C15 -- Concurrent requests do not interfere: under any interleaving of
\* classify and extract_fields calls issued by unrelated requests, each call
\* returns the result it would return when run alone.
C15_NoInterference ==
    \A c \in Callers :
        calls[c].pc = "done"
            => /\ calls[c].status_code = ServedAlone(calls[c]).status_code
               /\ calls[c].classification = ServedAlone(calls[c]).classification
               /\ calls[c].extracted = ServedAlone(calls[c]).extracted

\* C15 witness: an extraction has returned its fields while the other
\* caller's analysis of a different text, classified and with the cached
\* provider in hand, is still in flight
C15_Witness ==
    /\ calls["a"].endpoint = "extract"
    /\ calls["a"].pc = "done"
    /\ calls["a"].status_code = 200
    /\ calls["a"].ocr_text = Wa529Offer
    /\ calls["a"].document_type = "promotional"
    /\ calls["a"].extracted = ServedAlone(calls["a"]).extracted
    /\ Len(calls["a"].extracted) > 0
    /\ calls["b"].endpoint = "analyze"
    /\ calls["b"].pc = "extract"
    /\ calls["b"].ocr_text = CvsReceipt
    /\ calls["b"].llm_provider = _instance

\* C16 -- The hint is inert: for every text and field list, classify returns
\* the same type, confidence and signal report for every value of hint
\* (including none), and analyze extracts fields with the type the classifier
\* returned, never with the hint.
C16_HintInert ==
    \A c \in Callers :
        /\ Classified(c)
               => calls[c].classification =
                      ClassifyResultOf(calls[c].ocr_text, calls[c].fields, NoHint)
        /\ Extracted(c) /\ calls[c].endpoint = "analyze"
               => calls[c].extracted =
                      ExtractResultOf(calls[c].ocr_text,
                                      calls[c].classification.document_type)

\* C16 witness: an analysis hinted as a receipt was classified Promotional
\* and returned the promotional fields, not the receipt ones
C16_Witness ==
    \E c \in Callers :
        /\ Extracted(c)
        /\ calls[c].endpoint = "analyze"
        /\ calls[c].hint = "receipt"
        /\ calls[c].classification.document_type = "promotional"
        /\ calls[c].classification =
               ClassifyResultOf(calls[c].ocr_text, calls[c].fields, NoHint)
        /\ calls[c].extracted = ExtractResultOf(calls[c].ocr_text, "promotional")
        /\ calls[c].extracted # ExtractResultOf(calls[c].ocr_text, "receipt")

\* C17 -- Extraction never fails because of the LLM collaborator: for every
\* text and document type, an extraction request returns the (possibly empty)
\* list of Stage 1-3 fields whether the LLM provider is configured or cannot
\* be constructed because its API key is missing.
C17_ExtractionNeverFails ==
    \A c \in Callers :
        calls[c].endpoint \in {"extract", "analyze"} /\ calls[c].pc = "done"
            => /\ calls[c].status_code = 200
               /\ calls[c].extracted =
                      ExtractResultOf(calls[c].ocr_text, ExtractionType(calls[c]))

\* the key that the refinement for a document type gives to `amount` fields
RelabelledAmountKey(document_type) ==
    IF document_type = "promotional" THEN "offer_amount" ELSE "amount_due"

\* C18 -- Type-aware relabelling: extract_fields with type Promotional turns
\* every generic `amount` field into an `offer_amount` field with the same
\* value and confidence = original x 0.9 (BillStatement does the same with
\* key `amount_due`), so the result contains no field with key `amount`;
\* fields with any other key keep their key, value and confidence.
C18_TypeAwareRelabelling ==
    \A c \in Callers :
        Extracted(c) /\ ExtractionType(calls[c]) \in {"promotional", "billStatement"}
            => LET base == PatternFieldsOf(calls[c].ocr_text)
                   out == calls[c].extracted
               IN  /\ Len(out) >= Len(base)
                   /\ \A k \in 1..Len(base) :
                          IF base[k].key = "amount"
                          THEN /\ out[k].key =
                                      RelabelledAmountKey(ExtractionType(calls[c]))
                               /\ out[k].value = base[k].value
                               /\ out[k].confidence * 10 = base[k].confidence * 9
                               /\ out[k].source = base[k].source
                          ELSE out[k] = base[k]
                   /\ \A k \in 1..Len(out) : out[k].key # "amount"

\* C18 witness: a Promotional extraction and a BillStatement extraction have
\* both relabelled an amount at 0.765 and kept a date field as it was
C18_Witness ==
    /\ Extracted("a")
    /\ ExtractionType(calls["a"]) = "promotional"
    /\ \E k \in 1..Len(PatternFieldsOf(calls["a"].ocr_text)) :
           /\ PatternFieldsOf(calls["a"].ocr_text)[k].key = "amount"
           /\ PatternFieldsOf(calls["a"].ocr_text)[k].confidence = 850
           /\ calls["a"].extracted[k] = FieldModel("offer_amount", "$50", 765, "pattern")
    /\ \E k \in 1..Len(calls["a"].extracted) :
           calls["a"].extracted[k] = FieldModel("date", "12/12/2025", 900, "pattern")
    /\ Extracted("b")
    /\ ExtractionType(calls["b"]) = "billStatement"
    /\ \E k \in 1..Len(PatternFieldsOf(calls["b"].ocr_text)) :
           /\ PatternFieldsOf(calls["b"].ocr_text)[k].key = "amount"
           /\ calls["b"].extracted[k] = FieldModel("amount_due", "$35.00", 765, "pattern")
    /\ \E k \in 1..Len(calls["b"].extracted) :
           calls["b"].extracted[k] = FieldModel("date", "07/15/2025", 900, "pattern")

\* the three promo_patterns searches over the texts the callers send,
\* computed once per text
PromoPatternResults ==
    {[ocr_text |-> text, result |-> promo_patterns(text)] :
        text \in ServiceTexts}

PromoPatternsOf(text) ==
    (CHOOSE r \in PromoPatternResults : r.ocr_text = text).result

\* the promo_code fields of a field list
PromoCodeFields(fields) == SelectSeq(fields, LAMBDA f : f.key = "promo_code")

\* C19 -- Promo-code extraction is first-pattern-wins: for Promotional text
\* the patterns `promo code`, `use code`, `code` are tried in that order and
\* the first pattern that matches anywhere in the text supplies the single
\* promo_code field (confidence 0.95), even when a later pattern would match
\* at an earlier position; the result never holds more than one promo_code
\* and has one whenever a `promo code` pattern is present.
C19_FirstPatternWins ==
    \A c \in Callers :
        Extracted(c) /\ ExtractionType(calls[c]) = "promotional"
            => LET found == PromoPatternsOf(calls[c].ocr_text)
                   codes == PromoCodeFields(calls[c].extracted)
                   expected == IF found[1] # <<>> THEN found[1]
                               ELSE IF found[2] # <<>> THEN found[2]
                               ELSE found[3]
               IN  /\ Len(codes) <= 1
                   /\ Len(codes) = Len(expected)
                   /\ found[1] # <<>> => Len(codes) = 1
                   /\ \A k \in 1..Len(codes) :
                          codes[k] = FieldModel("promo_code", expected[1], 950, "pattern")

\* C19 witness: in "Use code SAVE5 at checkout. Use promo code Offer25." the
\* `use code` and `code` patterns match first in the text, with SAVE5, and
\* the one promo_code returned is Offer25, from the `promo code` pattern
C19_Witness ==
    \E c \in Callers :
        /\ Extracted(c)
        /\ ExtractionType(calls[c]) = "promotional"
        /\ calls[c].ocr_text = TwoCodes
        /\ PromoPatternsOf(TwoCodes) = <<<<"Offer25">>, <<"SAVE5">>, <<"SAVE5">>>>
        /\ PromoCodeFields(calls[c].extracted)
               = <<FieldModel("promo_code", "Offer25", 950, "pattern")>>

RECURSIVE LineStartsAt(_, _)
\* position i is at the start of a line of the text, indentation aside
LineStartsAt(text, i) ==
    \/ i = 1
    \/ CharAt(text, i - 1) = "\n"
    \/ CharAt(text, i - 1) \in {" ", "\t"} /\ LineStartsAt(text, i - 1)

\* the text has, at position i, a line that reads `line`
LineAt(text, i, line) ==
    LET after == i + Len(line)
        rest == after + RunOf(text, after, {" ", "\t"})
    IN  /\ i + Len(line) - 1 <= Len(text)
        /\ SubSeq(text, i, i + Len(line) - 1) = line
        /\ LineStartsAt(text, i)
        /\ rest > Len(text) \/ CharAt(text, rest) = "\n"

HasLine(text, line) == \E i \in 1..Len(text) : LineAt(text, i, line)

\* the texts with a "Receipt #456" line, a "Total: $12.99" line, a card
\* brand line and no promotional signals
EndToEndReceiptTexts ==
    {text \in ServiceTexts :
        /\ HasLine(text, "Receipt #456")
        /\ HasLine(text, "Total: $12.99")
        /\ AnyIn(card_types, Lower(text))
        /\ PromotionalCategoryCount(Lower(text)) = 0}

\* the fields of a field list that have a given key
FieldsWithKey(fields, key) == SelectSeq(fields, LAMBDA f : f.key = key)

\* C20 -- End-to-end receipt: on a text with a "Receipt #<id>" line, a
\* "Total: $<d.dd>" line, a card brand line and no promotional signals,
\* extract_fields with type Receipt contains exactly one transaction_id field
\* whose value is <id> and exactly one total_amount field whose value is
\* "$<d.dd>", and leaves the generic amount fields unrenamed.
C20_EndToEndReceipt ==
    \A c \in Callers :
        /\ Extracted(c)
        /\ ExtractionType(calls[c]) = "receipt"
        /\ calls[c].ocr_text \in EndToEndReceiptTexts
        => LET fields == calls[c].extracted
           IN  /\ Len(FieldsWithKey(fields, "transaction_id")) = 1
               /\ FieldsWithKey(fields, "transaction_id")[1].value = "456"
               /\ Len(FieldsWithKey(fields, "total_amount")) = 1
               /\ FieldsWithKey(fields, "total_amount")[1].value = "$12.99"
               /\ FieldsWithKey(fields, "amount")
                      = FieldsWithKey(PatternFieldsOf(calls[c].ocr_text), "amount")
               /\ FieldsWithKey(fields, "offer_amount") = <<>>
               /\ FieldsWithKey(fields, "amount_due") = <<>>

(***************************************************************************)
(* Properties of the confidence scheme and of the single detectors.        *)
(***************************************************************************)
\* how many of the four insurance signal categories a haystack holds
InsuranceCategoryCount(text) ==
    CountTrue(<<AnyIn(card_indicators, text), AnyIn(insurance_terms, text),
                AnyIn(network_terms, text), AnyIn(known_insurers, text)>>)

\* the rx-bin shortcut of the insurance detector
HasRxBin(text) == Contains(text, "rx bin") \/ Contains(text, "rxbin")

\* the confidence band of a category count out of 5 and out of 4; 0 where
\* the claim names no band
PromotionalBand(count) ==
    CASE count = 5 -> 95
      [] count = 4 -> 85
      [] count \in {2, 3} -> 75
      [] OTHER -> 0

InsuranceBand(count) ==
    CASE count = 4 -> 95
      [] count = 3 -> 85
      [] count = 2 -> 75
      [] OTHER -> 0

\* C21 -- Count-banded confidence: when Promotional wins, confidence is 0.95
\* for 5 matched categories, 0.85 for 4 and 0.75 for 2 or 3, so every
\* Promotional result has confidence at least 0.75; when InsuranceCard wins,
\* the same banding is applied out of 4 categories (4 -> 0.95, 3 -> 0.85,
\* 2 -> 0.75) and is overridden to 0.95 whenever the rx-bin shortcut fired.
C21_CountBandedConfidence ==
    Responded
        => /\ response.document_type = "promotional"
                => /\ response.confidence =
                          PromotionalBand(PromotionalCategoryCount(RequestHaystack))
                   /\ response.confidence >= 75
           /\ response.document_type = "insuranceCard"
                => response.confidence =
                       IF HasRxBin(RequestHaystack) THEN 95
                       ELSE InsuranceBand(InsuranceCategoryCount(RequestHaystack))

\* C21 witness: an insurance card with all four signal categories and no
\* rx-bin, classified InsuranceCard at the top band
C21_Witness ==
    /\ Responded
    /\ response.document_type = "insuranceCard"
    /\ ~HasRxBin(RequestHaystack)
    /\ InsuranceCategoryCount(RequestHaystack) = 4
    /\ response.confidence = 95

\* the three receipt tiers, on a haystack
StrongTier(text) == AnyIn(transaction_patterns, text) /\ HasPaymentMethodSignal(text)

MediumTier(text) == AnyIn(merchant_indicators, text) /\ HasPaymentMethodSignal(text)

WeakTier(text) ==
    /\ AnyIn(receipt_keywords, text)
    /\ AnyIn(payment_complete_words, text)
    /\ count_amounts(text) >= 3

\* C22 -- Receipt tiers are evaluated top-down and the first satisfied tier
\* fixes the outcome: (1) transaction id + payment method, (2) merchant
\* context + payment method, (3) receipt word + payment-completion word + at
\* least 3 dollar-amount matches.  When Receipt wins, confidence is 0.95 iff
\* tier 1 matched, 0.85 iff tier 2 matched without tier 1, and 0.70 iff only
\* tier 3 matched; a text satisfying several tiers always gets the highest
\* tier's confidence.
C22_ReceiptTiers ==
    Responded /\ response.document_type = "receipt"
        => /\ response.confidence = 95 <=> StrongTier(RequestHaystack)
           /\ response.confidence = 85
                <=> MediumTier(RequestHaystack) /\ ~StrongTier(RequestHaystack)
           /\ response.confidence = 70
                <=> /\ WeakTier(RequestHaystack)
                    /\ ~MediumTier(RequestHaystack)
                    /\ ~StrongTier(RequestHaystack)
           /\ response.confidence \in {95, 85, 70}

\* C22 witness: a receipt that satisfies the strong and the medium tier,
\* classified Receipt at the strong tier's 0.95
C22_Witness ==
    /\ Responded
    /\ response.document_type = "receipt"
    /\ StrongTier(RequestHaystack)
    /\ MediumTier(RequestHaystack)
    /\ response.confidence = 95

\* C23 -- The bill-statement detector fires iff a billing-specific term is
\* present, or a payment-due term is present together with at least one of:
\* an invoice term, a service term, an account-management term.  In
\* particular a text whose only bill signal is a payment-due term never fires
\* the detector, and a billing-specific term fires it with no payment-due
\* term at all.
C23_BillNeedsCombination ==
    Responded
        => (response.signals.bill
              <=> \/ AnyIn(billing_terms, RequestHaystack)
                  \/ /\ AnyIn(payment_due, RequestHaystack)
                     /\ \/ AnyIn(invoice_terms, RequestHaystack)
                        \/ AnyIn(service_terms, RequestHaystack)
                        \/ AnyIn(account_terms, RequestHaystack))

\* C23 witness: a text whose only bill signal is "amount due" has been
\* classified without the bill detector firing
C23_Witness ==
    /\ Responded
    /\ AnyIn(payment_due, RequestHaystack)
    /\ ~AnyIn(billing_terms, RequestHaystack)
    /\ ~AnyIn(invoice_terms, RequestHaystack)
    /\ ~AnyIn(service_terms, RequestHaystack)
    /\ ~AnyIn(account_terms, RequestHaystack)
    /\ ~response.signals.bill

\* C24 -- The letter detector fires iff the promotional detector did not
\* fire AND a salutation is present AND a closing is present; a salutation
\* without a closing, or a closing without a salutation, never yields Letter,
\* and a Letter result always has confidence 0.80.
C24_LetterNeedsBoth ==
    Responded
        => /\ response.signals.letter
                <=> /\ PromotionalCategoryCount(RequestHaystack) < 2
                    /\ AnyIn(salutations, RequestHaystack)
                    /\ AnyIn(closings, RequestHaystack)
           /\ response.document_type = "letter"
                => /\ AnyIn(salutations, RequestHaystack)
                   /\ AnyIn(closings, RequestHaystack)
                   /\ response.confidence = 80

\* C24 witness: a text with a salutation and a closing and fewer than two
\* promotional categories, classified Letter at 0.80
C24_Witness ==
    /\ Responded
    /\ PromotionalCategoryCount(RequestHaystack) < 2
    /\ AnyIn(salutations, RequestHaystack)
    /\ AnyIn(closings, RequestHaystack)
    /\ response.signals.letter
    /\ response.document_type = "letter"
    /\ response.confidence = 80

(***************************************************************************)
(* Properties of luhn_check.                                               *)
(***************************************************************************)
RECURSIVE DigitsOnly(_, _)
\* the digits among the first n characters of a string, in order
DigitsOnly(s, n) ==
    IF n = 0 THEN ""
    ELSE DigitsOnly(s, n - 1) \o (IF IsDigit(CharAt(s, n)) THEN CharAt(s, n) ELSE "")

\* the reference Luhn definition
ReferenceLuhn(s) ==
    LET digits == DigitsOnly(s, Len(s))
    IN  /\ Len(digits) >= 13
        /\ Len(digits) <= 19
        /\ ReferenceLuhnSum(digits, Len(digits)) % 10 = 0

\* C25 -- luhn_check agrees with the reference Luhn definition for every
\* digit string: it returns true iff the string (after removing non-digits)
\* has between 13 and 19 digits and the sum obtained by doubling every second
\* digit counted from the right, subtracting 9 from doubled values above 9,
\* and adding all digits is divisible by 10.
C25_LuhnAgreesWithReference ==
    luhn_result # <<>> => (luhn_result[1] <=> ReferenceLuhn(luhn_input))

\* C25 witness: a 19-digit number with a Luhn sum divisible by 10 has been
\* accepted
C25_Witness ==
    /\ luhn_result = <<TRUE>>
    /\ Len(luhn_input) = 19
    /\ DigitsOnly(luhn_input, Len(luhn_input)) = luhn_input
    /\ ReferenceLuhnSum(luhn_input, 19) % 10 = 0

(***************************************************************************)
(* Properties of the LLM enrichment.                                       *)
(***************************************************************************)
\* an entry that cannot become a Field: no key, no value, or a confidence
\* outside [0, 1]
BadEntry(entry) ==
    \/ "key" \notin DOMAIN entry
    \/ "value" \notin DOMAIN entry
    \/ "confidence" \in DOMAIN entry
          /\ (entry.confidence < 0 \/ entry.confidence > 1000)

\* a provider outcome that is a failure: a provider error, a response that
\* is not JSON or not of the expected shape, or a list with a bad entry
FailedOutcome(outcome) ==
    \/ outcome.raised # "None"
    \/ outcome.shape \in {"not_a_dict", "fields_null"}
    \/ \E k \in 1..Len(outcome.fields) : BadEntry(outcome.fields[k])

\* C26 -- LLM enrichment is all-or-nothing and never raises:
\* _extract_with_llm returns either one source=llm Field for every entry of
\* the provider's field list, or the empty list; a provider error, a
\* non-JSON/ill-shaped response, an entry missing key or value, or an entry
\* whose confidence lies outside [0,1] makes it return the empty list
\* (dropping entries already converted) instead of propagating an exception.
C26_LlmAllOrNothing ==
    llm_result # <<>>
        => LET returned == llm_result[1]
               entries == llm_outcome.fields
           IN  /\ returned.raised = "None"
               /\ FailedOutcome(llm_outcome) => returned.fields = <<>>
               /\ \/ returned.fields = <<>>
                  \/ /\ Len(returned.fields) = Len(entries)
                     /\ \A k \in 1..Len(entries) :
                            /\ returned.fields[k].source = "llm"
                            /\ returned.fields[k].key = entries[k].key
                            /\ returned.fields[k].value = entries[k].value
                            /\ returned.fields[k].confidence
                                   = Get(entries[k], "confidence", 800)
               /\ ~FailedOutcome(llm_outcome)
                     => Len(returned.fields) = Len(entries)

\* C26 witness: the provider returned a good entry followed by one without
\* a value, and the enrichment returned the empty list
C26_Witness ==
    /\ llm_result # <<>>
    /\ llm_outcome.raised = "None"
    /\ Len(llm_outcome.fields) = 2
    /\ ~BadEntry(llm_outcome.fields[1])
    /\ "value" \notin DOMAIN llm_outcome.fields[2]
    /\ llm_result[1] = [raised |-> "None", fields |-> <<>>]

(***************************************************************************)
(* Properties of the stages of extract_fields.                             *)
(***************************************************************************)
\* the refinement has run
Refined == extraction.stage \in {"refined", "returned"}

\* C27 -- Refinement and Stage 3 only relabel and append: for every document
\* type the refined list has the same length and order as the Stage 1
\* pattern list and the input Field objects are not modified; for every type
\* other than Promotional and BillStatement it is element-wise equal to the
\* Stage 1 list; Stage 3 fields are appended after all refined fields; and
\* for CreditCard, InsuranceCard, Letter and Generic the result of
\* extract_fields is exactly the Stage 1 list.
C27_RelabelAndAppend ==
    LET n == Len(extraction.pattern)
        document_type == extraction.document_type
    IN  /\ Refined =>
            /\ Len(extraction.refined_was) = n
            /\ \A k \in 1..n :
                   /\ extraction.refined_was[k].value = extraction.pattern[k].value
                   /\ extraction.refined_was[k].source = extraction.pattern[k].source
                   /\ extraction.refined_was[k].key # extraction.pattern[k].key
                         => /\ extraction.pattern[k].key = "amount"
                            /\ extraction.refined_was[k].key
                                   \in {"offer_amount", "amount_due"}
            /\ SubSeq(extraction.objects, 1, n) = extraction.pattern
            /\ document_type \notin {"promotional", "billStatement"}
                   => extraction.refined_was = extraction.pattern
            /\ extraction.refined_was
                   = _refine_fields_by_type(extraction.pattern, document_type,
                                            extraction.ocr_text)
        /\ extraction.stage = "returned" =>
            /\ SubSeq(extraction.returned, 1, n) = extraction.refined_was
            /\ extraction.returned
                   = extraction.refined_was
                     \o SpecificFieldsOf(extraction.ocr_text, document_type)
            /\ extraction.returned
                   = ExtractResultOf(extraction.ocr_text, document_type)
            /\ document_type \in {"creditCard", "insuranceCard", "letter", "generic"}
                   => extraction.returned = extraction.pattern

\* C27 witness: a promotional extraction has returned, an amount was
\* relabelled, its Stage 1 object still reads "amount", and Stage 3 fields
\* follow the refined ones
C27_Witness ==
    /\ extraction.stage = "returned"
    /\ extraction.document_type = "promotional"
    /\ \E k \in 1..Len(extraction.pattern) :
           /\ extraction.pattern[k].key = "amount"
           /\ extraction.objects[k].key = "amount"
           /\ extraction.returned[k].key = "offer_amount"
    /\ Len(extraction.returned) > Len(extraction.pattern)

(***************************************************************************)
(* Properties of the confidence classify returns.                          *)
(***************************************************************************)
ReturnedConfidences == {30, 70, 75, 80, 85, 90, 95}

\* C28 -- Over all inputs, the confidence classify returns is one of 0.30,
\* 0.70, 0.75, 0.80, 0.85, 0.90, 0.95: the 0.60 branch of the banding
\* function is never the returned confidence (a Promotional win needs at
\* least 2 categories, and an InsuranceCard win with fewer than 2 categories
\* implies the rx-bin override), and the confidence is at least 0.70 exactly
\* when some detector fired.
C28_ReturnedConfidences ==
    Responded
        => /\ response.confidence \in ReturnedConfidences
           /\ response.confidence # 60
           /\ response.document_type = "promotional"
                  => PromotionalCategoryCount(RequestHaystack) >= 2
           /\ response.document_type = "insuranceCard"
                 /\ InsuranceCategoryCount(RequestHaystack) < 2
                  => HasRxBin(RequestHaystack) /\ response.confidence = 95
           /\ response.confidence >= 70
                  <=> ~NoDetectorFired(response.signals)

\* C28 witness: an insurance card wins with a single category, where the
\* banding function alone would give 0.60, and the rx-bin override returns 0.95
C28_Witness ==
    /\ Responded
    /\ response.document_type = "insuranceCard"
    /\ InsuranceCategoryCount(RequestHaystack) = 1
    /\ _calculate_confidence(InsuranceCategoryCount(RequestHaystack), 4) = 60
    /\ response.confidence = 95

(***************************************************************************)
(* Properties of the upload endpoints.                                     *)
(***************************************************************************)
Entered(step) == \E k \in 1..Len(upload.steps) : upload.steps[k] = step

\* C29 -- In the upload pipelines (upload_image, upload_audio) the steps run
\* strictly in the order filename check, format check, size check,
\* OCR/transcription, empty-text check, classify, extract_fields: classify
\* and extract_fields are never invoked with an empty text (an empty
\* OCR/transcription result ends the request with 422), no OCR/transcription
\* call is made for a file that failed validation (400 for format, 413 for
\* size), and an HTTP error raised at any step reaches the caller with its
\* own status instead of being rewrapped as 500.
C29_UploadOrder ==
    LET format_ok == validate_file_format(upload.kind, upload.filename)
        size_ok == validate_file_size(upload.kind, upload.file_size)
        responded == upload.stage = "responded"
    IN  /\ upload.steps = SubSeq(UploadOrder, 1, Len(upload.steps))
        /\ \A k \in 1..Len(upload.classified) : upload.classified[k] # ""
        /\ \A k \in 1..Len(upload.extracted) : upload.extracted[k] # ""
        /\ Entered("recognise")
               => upload.filename # "" /\ format_ok /\ size_ok
        /\ upload.called => Entered("recognise")
        /\ responded /\ upload.filename # "" /\ ~format_ok
               => upload.status_code = 400 /\ ~upload.called
        /\ responded /\ upload.filename # "" /\ format_ok /\ ~size_ok
               => upload.status_code = 413 /\ ~upload.called
        /\ responded /\ Entered("empty-text check") /\ upload.text = ""
               => /\ upload.status_code = 422
                  /\ upload.classified = <<>>
                  /\ upload.extracted = <<>>
        /\ responded /\ upload.raised.type = "HTTPException"
               => upload.status_code = upload.raised.status_code
        /\ responded /\ upload.status_code = 200
               => upload.steps = UploadOrder

\* C29 witness: the OCR of a valid image returned only white space; the
\* request ended with 422 and neither classify nor extract_fields ran
C29_Witness ==
    /\ upload.stage = "responded"
    /\ upload.kind = "image"
    /\ upload.called
    /\ upload.raised = HTTPException(422)
    /\ upload.status_code = 422
    /\ upload.steps = SubSeq(UploadOrder, 1, 5)
    /\ upload.classified = <<>>

(***************************************************************************)
(* Properties of the provider factory.                                     *)
(***************************************************************************)
\* C30 -- Provider singleton: after any sequence of get_provider,
\* reset_provider and ExtractionService constructions, all get_provider
\* calls since the last reset return the same provider instance and
\* create_provider succeeded at most once in that span; a create_provider
\* failure leaves no instance cached, so the next get_provider attempts
\* creation again, and reset_provider always returns the factory to the
\* no-instance state.
C30_ProviderSingleton ==
    /\ \A i, j \in 1..Len(factory.returned) :
           factory.returned[i] = factory.returned[j]
    /\ factory.created <= 1
    /\ factory.returned # <<>>
           => /\ factory.created = 1
              /\ factory.returned[1] = factory.cache.serial
              /\ _instance # NoInstance
    /\ factory.last = "ValueError"
           => /\ _instance = NoInstance
              /\ factory.cache.serial = 0
    /\ factory.created = 0 => factory.attempts = factory.failures
    /\ factory.attempts = factory.failures + factory.created
    /\ factory.last = "reset_provider"
           => /\ _instance = NoInstance
              /\ factory.cache.serial = 0
              /\ factory.returned = <<>>

\* C30 witness: after a reset a second provider object was created, and a
\* get_provider call and an ExtractionService construction both got it
C30_Witness ==
    /\ factory.cache.made = 2
    /\ factory.returned = <<2, 2>>
    /\ factory.created = 1
    /\ factory.last = "ExtractionService"

====
